---- MODULE Spec2Model ----
(***************************************************************************)
(* A model of the ElastiCache inventory client                             *)
(* (elasticache_info/aws/client.py): the Layer 1 topology resolver, the    *)
(* regional query pipeline, the region fan-out of get_elasticache_info and *)
(* the shared parameter-group cache, the handle_aws_errors retry wrapper,   *)
(* the parameter parsing loop, _convert_to_model on replication groups and *)
(* on standalone clusters, _query_single_region step by step, the run of   *)
(* get_elasticache_info under fair scheduling, the client instances and    *)
(* the provider calls of the regional tasks, the two paginated listings    *)
(* retried by handle_aws_errors, and FieldFormatter.format_backup,         *)
(* format_slow_logs and format_cluster_name                                *)
(* (elasticache_info/field_formatter.py).                                  *)
(***************************************************************************)
EXTENDS Naturals, Integers, Sequences, FiniteSets, TLC

(***************************************************************************)
(* Strings.  Identifiers are TLA+ strings; Chars gives the characters of   *)
(* the strings the model uses, so that comparison, case conversion and     *)
(* wildcard matching are computed character by character as Python does.   *)
(***************************************************************************)

\* The characters the model uses, in ascending code-point order.
CodePoints ==
  << " ", "*", "+", "-", ".", "/", "0", "1", "2", "3", "4", "5", "6", "7", "8", "9", "?",
     "A", "B", "C", "D", "E", "F", "G", "H", "I", "J", "K", "L", "M",
     "N", "O", "P", "Q", "R", "S", "T", "U", "V", "W", "X", "Y", "Z", "_",
     "a", "b", "c", "d", "e", "f", "g", "h", "i", "j", "k", "l", "m",
     "n", "o", "p", "q", "r", "s", "t", "u", "v", "w", "x", "y", "z" >>

\* Rank of a character in code-point order (order-isomorphic to ord()).
Ord(c) == CHOOSE i \in 1..Len(CodePoints) : CodePoints[i] = c

UpperCase == << "A", "B", "C", "D", "E", "F", "G", "H", "I", "J", "K", "L", "M",
                "N", "O", "P", "Q", "R", "S", "T", "U", "V", "W", "X", "Y", "Z" >>

LowerCase == << "a", "b", "c", "d", "e", "f", "g", "h", "i", "j", "k", "l", "m",
                "n", "o", "p", "q", "r", "s", "t", "u", "v", "w", "x", "y", "z" >>

UpperChar(c) ==
  IF \E i \in 1..26 : LowerCase[i] = c
  THEN UpperCase[CHOOSE i \in 1..26 : LowerCase[i] = c]
  ELSE c

LowerChar(c) ==
  IF \E i \in 1..26 : UpperCase[i] = c
  THEN LowerCase[CHOOSE i \in 1..26 : UpperCase[i] = c]
  ELSE c

\* The characters of each string literal of the model.
CharTable ==
  ("" :> << >>)
  @@ ("ap-south-1" :> << "a","p","-","s","o","u","t","h","-","1" >>)
  @@ ("us-east-1" :> << "u","s","-","e","a","s","t","-","1" >>)
  @@ ("us-west-2" :> << "u","s","-","w","e","s","t","-","2" >>)
  @@ ("PRIMARY" :> << "P","R","I","M","A","R","Y" >>)
  @@ ("SECONDARY" :> << "S","E","C","O","N","D","A","R","Y" >>)
  @@ ("primary" :> << "p","r","i","m","a","r","y" >>)
  @@ ("Secondary" :> << "S","e","c","o","n","d","a","r","y" >>)
  @@ ("redis" :> << "r","e","d","i","s" >>)
  @@ ("valkey" :> << "v","a","l","k","e","y" >>)
  @@ ("memcached" :> << "m","e","m","c","a","c","h","e","d" >>)
  @@ ("Memcached" :> << "M","e","m","c","a","c","h","e","d" >>)
  @@ ("rg-east" :> << "r","g","-","e","a","s","t" >>)
  @@ ("rg-west" :> << "r","g","-","w","e","s","t" >>)
  @@ ("rg-a" :> << "r","g","-","a" >>)
  @@ ("rg-b" :> << "r","g","-","b" >>)
  @@ ("rg-n" :> << "r","g","-","n" >>)
  @@ ("prod-cache-1" :> << "p","r","o","d","-","c","a","c","h","e","-","1" >>)
  @@ ("staging-cache-1" :>
        << "s","t","a","g","i","n","g","-","c","a","c","h","e","-","1" >>)
  @@ ("mc-1" :> << "m","c","-","1" >>)
  @@ ("rg-a-001" :> << "r","g","-","a","-","0","0","1" >>)
  @@ ("prod-*" :> << "p","r","o","d","-","*" >>)
  @@ ("rg-*" :> << "r","g","-","*" >>)
  @@ ("gds-*" :> << "g","d","s","-","*" >>)
  @@ ("gds-1/rg-east" :> << "g","d","s","-","1","/","r","g","-","e","a","s","t" >>)
  @@ ("0" :> << "0" >>)
  @@ ("256" :> << "2","5","6" >>)
  @@ ("5000" :> << "5","0","0","0" >>)
  @@ ("-1" :> << "-","1" >>)
  @@ ("abc" :> << "a","b","c" >>)
  @@ (" 42 " :> << " ","4","2"," " >>)
  @@ ("+7" :> << "+","7" >>)
  @@ ("1.5" :> << "1",".","5" >>)
  @@ ("1_000" :> << "1","_","0","0","0" >>)
  @@ ("7_" :> << "7","_" >>)

Chars(s) == CharTable[s]

RECURSIVE Join(_)
Join(cs) == IF cs = << >> THEN "" ELSE Head(cs) \o Join(Tail(cs))

\* str.upper(), str.lower() and str.capitalize() are tabulated once over the
\* literals of the model.
UpperTable ==
  [s \in DOMAIN CharTable |-> Join([i \in 1..Len(Chars(s)) |-> UpperChar(Chars(s)[i])])]

\* str.upper()
Upper(s) == UpperTable[s]

LowerTable ==
  [s \in DOMAIN CharTable |-> Join([i \in 1..Len(Chars(s)) |-> LowerChar(Chars(s)[i])])]

\* str.lower()
Lower(s) == LowerTable[s]

CapitalizeTable ==
  [s \in DOMAIN CharTable |->
     Join([i \in 1..Len(Chars(s)) |->
             IF i = 1 THEN UpperChar(Chars(s)[i]) ELSE LowerChar(Chars(s)[i])])]

\* str.capitalize(): first character upper-cased, the rest lower-cased
Capitalize(s) == CapitalizeTable[s]

\* Python's str < str: lexicographic by code point, a proper prefix is smaller
RECURSIVE SeqLess(_, _)
SeqLess(a, b) ==
  IF b = << >> THEN FALSE
  ELSE IF a = << >> THEN TRUE
  ELSE IF Ord(Head(a)) # Ord(Head(b)) THEN Ord(Head(a)) < Ord(Head(b))
  ELSE SeqLess(Tail(a), Tail(b))

StrLess(a, b) == SeqLess(Chars(a), Chars(b))

\* fnmatch.fnmatch(text, pattern) for patterns made of literals, "*" and "?"
RECURSIVE FnMatch(_, _)
FnMatch(p, t) ==
  IF p = << >> THEN t = << >>
  ELSE IF Head(p) = "*"
       THEN FnMatch(Tail(p), t) \/ (t # << >> /\ FnMatch(p, Tail(t)))
  ELSE IF t = << >> THEN FALSE
  ELSE (Head(p) = "?" \/ Head(p) = Head(t)) /\ FnMatch(Tail(p), Tail(t))

match_wildcard(pattern, text) == FnMatch(Chars(pattern), Chars(text))

\* Python's None
None == "None"

\* An empty dict
EmptyMap == [k \in {} |-> k]

\* x in list
InList(x, list) == \E i \in 1..Len(list) : list[i] = x

(***************************************************************************)
(* The provider's data: the global-construct listing pages and the         *)
(* per-region inventories the client reads.                                *)
(***************************************************************************)

\* Bounds of the model
MaxPages == 2

Regions == { "ap-south-1", "us-east-1", "us-west-2" }

Member(rg_id, region, role) ==
  [ReplicationGroupId |-> rg_id, ReplicationGroupRegion |-> region, Role |-> role]

GlobalDs(id, members) == [GlobalReplicationGroupId |-> id, Members |-> members]

\* One construct gds-1: primary rg-east in us-east-1, secondary rg-west in us-west-2
PageEastWest ==
  << GlobalDs("gds-1", << Member("rg-east", "us-east-1", "PRIMARY"),
                          Member("rg-west", "us-west-2", "SECONDARY") >>) >>

\* Roles in other spellings, and a member that carries no role
PageMixedCase ==
  << GlobalDs("gds-2", << Member("rg-a", "ap-south-1", "primary"),
                          Member("rg-b", "us-west-2", "Secondary"),
                          Member("prod-cache-1", "us-east-1", "") >>) >>

\* A construct whose record carries no GlobalReplicationGroupId
PageNoId == << GlobalDs("", << Member("rg-n", "us-east-1", "PRIMARY") >>) >>

\* A construct without members
PageNoMembers == << GlobalDs("gds-3", << >>) >>

PagePool == { PageEastWest, PageMixedCase, PageNoId, PageNoMembers }

\* The listings: up to MaxPages pages; a replication group is enrolled in at
\* most one construct, so no page occurs twice
GlobalListings ==
  UNION { { l \in [1..n -> PagePool] : \A i, j \in 1..n : i # j => l[i] # l[j] }
          : n \in 0..MaxPages }

\* A replication group as the listing gives it when it names no member
\* cluster: its conversion makes no provider call (lines 399-412)
Rg(id, node_groups) == [ReplicationGroupId |-> id, NodeGroups |-> node_groups]

Cluster(id, engine) == [CacheClusterId |-> id, Engine |-> engine]

RegionInventory(rgs, clusters) == [ReplicationGroups |-> rgs, CacheClusters |-> clusters]

\* Only the two members of gds-1 exist
InventoryEastWest ==
  [r \in Regions |->
     CASE r = "us-east-1" -> RegionInventory(<< Rg("rg-east", << 2 >>) >>, << >>)
       [] r = "us-west-2" -> RegionInventory(<< Rg("rg-west", << 2 >>) >>, << >>)
       [] OTHER -> RegionInventory(<< >>, << >>)]

\* Enrolled and local groups, a group listed without node groups (rg-a in
\* us-west-2), standalone clusters, and the local id rg-east used again in
\* ap-south-1
InventoryMixed ==
  [r \in Regions |->
     CASE r = "us-east-1" ->
            RegionInventory(<< Rg("rg-n", << 1, 1 >>), Rg("rg-east", << 2 >>),
                               Rg("prod-cache-1", << 1 >>) >>,
                            << Cluster("mc-1", "memcached") >>)
       [] r = "us-west-2" ->
            RegionInventory(<< Rg("rg-west", << 2 >>), Rg("rg-a", << >>),
                               Rg("rg-b", << 3 >>) >>,
                            << >>)
       [] r = "ap-south-1" ->
            RegionInventory(<< Rg("rg-east", << 1 >>), Rg("rg-a", << 2 >>) >>,
                            << Cluster("staging-cache-1", "Memcached"),
                               Cluster("rg-a-001", "redis"),
                               Cluster("prod-cache-1", "memcached") >>)]

Inventories == { InventoryEastWest, InventoryMixed }

EngineChoices == { << "redis" >>, << "memcached" >>, << "valkey", "memcached" >> }

FilterChoices == { None, "prod-*" }

\* The regions the client is run from
HomeRegions == { "ap-south-1", "us-east-1" }

(***************************************************************************)
(* Layer 1: _get_global_datastores                                         *)
(***************************************************************************)

\* Mutant of parse_members: the role is stored as the listing spells it
RECURSIVE parse_members_role_as_listed(_, _, _)
parse_members_role_as_listed(global_ds_map, global_ds_id, members) ==
  IF members = << >> THEN global_ds_map
  ELSE LET member == Head(members)
           rg_id == member.ReplicationGroupId
           region == member.ReplicationGroupRegion
           role == member.Role
           region_map == IF region \in DOMAIN global_ds_map
                         THEN global_ds_map[region] ELSE EmptyMap
           entry == [global_datastore_id |-> global_ds_id, role |-> role]
           updated == IF rg_id # "" /\ region # "" /\ role # ""
                      THEN (region :> ((rg_id :> entry) @@ region_map)) @@ global_ds_map
                      ELSE global_ds_map
       IN parse_members_role_as_listed(updated, global_ds_id, Tail(members))

\* lines 154-169: the members of one construct, in listing order
RECURSIVE parse_members(_, _, _)
parse_members(global_ds_map, global_ds_id, members) ==
  IF members = << >> THEN global_ds_map
  ELSE LET member == Head(members)
           rg_id == member.ReplicationGroupId
           region == member.ReplicationGroupRegion
           role == member.Role
           region_map == IF region \in DOMAIN global_ds_map
                         THEN global_ds_map[region] ELSE EmptyMap
           entry == [global_datastore_id |-> global_ds_id, role |-> Upper(role)]
           updated == IF rg_id # "" /\ region # "" /\ role # ""
                      THEN (region :> ((rg_id :> entry) @@ region_map)) @@ global_ds_map
                      ELSE global_ds_map
       IN parse_members(updated, global_ds_id, Tail(members))

\* lines 147-169: the constructs of one page
RECURSIVE parse_page(_, _)
parse_page(global_ds_map, page) ==
  IF page = << >> THEN global_ds_map
  ELSE parse_page(
         parse_members(global_ds_map, Head(page).GlobalReplicationGroupId,
                       Head(page).Members),
         Tail(page))

RECURSIVE parse_pages(_, _)
parse_pages(global_ds_map, pages) ==
  IF pages = << >> THEN global_ds_map
  ELSE parse_pages(parse_page(global_ds_map, Head(pages)), Tail(pages))

\* The pages the loop of line 146 gets to process: all of them, or, when the
\* fetch of page fail_at raises, the pages before it
PagesProcessed(pages, fail_at) ==
  IF fail_at = 0 THEN pages ELSE SubSeq(pages, 1, fail_at - 1)

\* _get_global_datastores: global_ds_map is filled in place while the pages are
\* read; the handler of lines 173-175 only logs, and line 177 returns the map
\* as it stands, whether or not the listing failed
get_global_datastores(pages, fail_at) ==
  parse_pages(EmptyMap, PagesProcessed(pages, fail_at))

(***************************************************************************)
(* Layers 2-3 and the record normalizer, for one region                    *)
(***************************************************************************)

\* Mutant of format_cluster_name: the construct id is left out of the name
format_cluster_name_bare(global_ds_id, cluster_id) == cluster_id

\* FieldFormatter.format_cluster_name; an absent id (None) and "" are both falsy
\* line 73 as "if global_ds_id is not None": an empty id is prefixed too
format_cluster_name_unless_none(global_ds_id, cluster_id) ==
  IF global_ds_id # None
  THEN global_ds_id \o "/" \o cluster_id
  ELSE cluster_id

format_cluster_name(global_ds_id, cluster_id) ==
  IF global_ds_id # None /\ global_ds_id # ""
  THEN global_ds_id \o "/" \o cluster_id
  ELSE cluster_id

\* _get_replication_groups: a listed group is kept when it has node groups and
\* redis or valkey is in the filter
get_replication_groups(listed, engine_filter) ==
  SelectSeq(listed,
            LAMBDA rg : rg.NodeGroups # << >>
                        /\ (InList("redis", engine_filter)
                            \/ InList("valkey", engine_filter)))

\* _get_cache_clusters: a listed cluster is kept when its lower-cased engine is
\* in the filter
get_cache_clusters(listed, engine_filter) ==
  SelectSeq(listed, LAMBDA cluster : InList(Lower(cluster.Engine), engine_filter))

\* lines 388-389 with the group looked up under every region of the map
convert_to_model_any_region(rg_or_cluster, global_ds_map, current_region, is_replication_group) ==
  IF is_replication_group
  THEN LET rg_id == rg_or_cluster.ReplicationGroupId
           holders == { r \in DOMAIN global_ds_map : rg_id \in DOMAIN global_ds_map[r] }
           enrolled == holders # {}
           entry == global_ds_map[CHOOSE r \in holders : TRUE][rg_id]
           global_ds_id == IF enrolled THEN entry.global_datastore_id ELSE None
           role == IF enrolled THEN entry.role ELSE ""
       IN [region |-> current_region,
           name |-> format_cluster_name(global_ds_id, rg_id),
           role |-> IF role # "" THEN Capitalize(role) ELSE ""]
  ELSE [region |-> current_region,
        name |-> rg_or_cluster.CacheClusterId,
        role |-> ""]

\* _convert_to_model: the region, name and role of the record
convert_to_model(rg_or_cluster, global_ds_map, current_region, is_replication_group) ==
  IF is_replication_group
  THEN LET rg_id == rg_or_cluster.ReplicationGroupId
           region_map == IF current_region \in DOMAIN global_ds_map
                         THEN global_ds_map[current_region] ELSE EmptyMap
           enrolled == rg_id \in DOMAIN region_map
           global_ds_id == IF enrolled THEN region_map[rg_id].global_datastore_id
                           ELSE None
           role == IF enrolled THEN region_map[rg_id].role ELSE ""
       IN [region |-> current_region,
           name |-> format_cluster_name(global_ds_id, rg_id),
           role |-> IF role # "" THEN Capitalize(role) ELSE ""]
  ELSE [region |-> current_region,
        name |-> rg_or_cluster.CacheClusterId,
        role |-> ""]

\* lines 335-338 and 351-354 with the pattern compared as a plain string
PassesFilterLiteral(cluster_filter, id) ==
  (cluster_filter # None /\ cluster_filter # "") => cluster_filter = id

\* lines 335-338 and 351-354: the name filter, applied to the local identifier
PassesFilter(cluster_filter, id) ==
  (cluster_filter # None /\ cluster_filter # "") => match_wildcard(cluster_filter, id)

\* What a regional task ends with: the records it returns, or the exception it raises
Returns(results) == [exc |-> None, results |-> results]

Raises(exc) == [exc |-> exc, results |-> << >>]

\* A fault of the provider in one region: which call fails, and with what.
\* The group listing raises an error handle_aws_errors has classified, or an
\* exception of another class that the wrapper lets through as it is
NoFault == [at |-> "none", exc |-> None]

Faults ==
  { NoFault,
    [at |-> "client", exc |-> "ProfileNotFound"],
    [at |-> "replication_groups", exc |-> "AWSAPIError"],
    [at |-> "replication_groups", exc |-> "KeyError"],
    [at |-> "cache_clusters", exc |-> "AWSConnectionError"] }

\* lines 323-360 with the failure of the cache-cluster listing caught inside:
\* the records gathered so far are returned
query_single_region_keeping_partial(region, engines, cluster_filter, global_ds_map, inv, fault) ==
  LET wants_rg == InList("redis", engines) \/ InList("valkey", engines)
      wants_cc == InList("memcached", engines)
      rg_engines == SelectSeq(engines, LAMBDA e : e \in { "redis", "valkey" })
      replication_groups ==
        SelectSeq(get_replication_groups(inv.ReplicationGroups, rg_engines),
                  LAMBDA rg : PassesFilter(cluster_filter, rg.ReplicationGroupId))
      cache_clusters ==
        SelectSeq(get_cache_clusters(inv.CacheClusters, << "memcached" >>),
                  LAMBDA c : PassesFilter(cluster_filter, c.CacheClusterId))
      rg_results ==
        [i \in 1..Len(replication_groups) |->
           convert_to_model(replication_groups[i], global_ds_map, region, TRUE)]
      cc_results ==
        [i \in 1..Len(cache_clusters) |->
           convert_to_model(cache_clusters[i], global_ds_map, region, FALSE)]
  IN IF wants_rg /\ fault.at = "replication_groups" THEN Raises(fault.exc)
     ELSE IF wants_cc /\ fault.at = "cache_clusters"
     THEN Returns(IF wants_rg THEN rg_results ELSE << >>)
     ELSE Returns((IF wants_rg THEN rg_results ELSE << >>)
                  \o (IF wants_cc THEN cc_results ELSE << >>))

\* _query_single_region on the region's inventory
query_single_region(region, engines, cluster_filter, global_ds_map, inv, fault) ==
  LET wants_rg == InList("redis", engines) \/ InList("valkey", engines)
      wants_cc == InList("memcached", engines)
      rg_engines == SelectSeq(engines, LAMBDA e : e \in { "redis", "valkey" })
      replication_groups ==
        SelectSeq(get_replication_groups(inv.ReplicationGroups, rg_engines),
                  LAMBDA rg : PassesFilter(cluster_filter, rg.ReplicationGroupId))
      cache_clusters ==
        SelectSeq(get_cache_clusters(inv.CacheClusters, << "memcached" >>),
                  LAMBDA c : PassesFilter(cluster_filter, c.CacheClusterId))
      rg_results ==
        [i \in 1..Len(replication_groups) |->
           convert_to_model(replication_groups[i], global_ds_map, region, TRUE)]
      cc_results ==
        [i \in 1..Len(cache_clusters) |->
           convert_to_model(cache_clusters[i], global_ds_map, region, FALSE)]
  IN IF wants_rg /\ fault.at = "replication_groups" THEN Raises(fault.exc)
     ELSE IF wants_cc /\ fault.at = "cache_clusters" THEN Raises(fault.exc)
     ELSE Returns((IF wants_rg THEN rg_results ELSE << >>)
                  \o (IF wants_cc THEN cc_results ELSE << >>))

\* _query_region_wrapper whose records keep the default region of a fresh
\* ElastiCacheInfo (line 381 left out)
query_region_wrapper_region_unset(region, engines, cluster_filter, global_ds_map, inv, fault) ==
  IF fault.at = "client" THEN Raises(fault.exc)
  ELSE LET out == query_single_region(region, engines, cluster_filter, global_ds_map,
                                      inv, fault)
       IN [out EXCEPT !.results = [i \in DOMAIN @ |-> [@[i] EXCEPT !.region = ""]]]

\* _query_region_wrapper: a client bound to the region, then the regional query
query_region_wrapper(region, engines, cluster_filter, global_ds_map, inv, fault) ==
  IF fault.at = "client" THEN Raises(fault.exc)
  ELSE query_single_region(region, engines, cluster_filter, global_ds_map, inv, fault)

(***************************************************************************)
(* Layer 4: the parameter listing read by _get_parameter_group_params     *)
(***************************************************************************)

\* Bounds of the model
NumThreads == 2

MaxCalls == 3

Threads == 1..NumThreads

\* Defaults of lines 262-265
DefaultSlowerThan == 10000

DefaultMaxLen == 128

SlowerThan == "slowlog-log-slower-than"

MaxLenKey == "slowlog-max-len"

DefaultParams == (SlowerThan :> DefaultSlowerThan) @@ (MaxLenKey :> DefaultMaxLen)

Param(name, value) == [ParameterName |-> name, ParameterValue |-> value]

Digits == { "0", "1", "2", "3", "4", "5", "6", "7", "8", "9" }

RECURSIVE DigitsValue(_, _)
DigitsValue(cs, acc) ==
  IF cs = << >> THEN acc
  ELSE DigitsValue(Tail(cs), acc * 10 + (Ord(Head(cs)) - Ord("0")))

\* str.strip() of the blanks around a value
RECURSIVE StripLeft(_)
StripLeft(cs) ==
  IF cs # << >> /\ Head(cs) = " " THEN StripLeft(Tail(cs)) ELSE cs

RECURSIVE StripRight(_)
StripRight(cs) ==
  IF cs # << >> /\ cs[Len(cs)] = " " THEN StripRight(SubSeq(cs, 1, Len(cs) - 1)) ELSE cs

Strip(cs) == StripRight(StripLeft(cs))

Unsigned(cs) == IF cs # << >> /\ Head(cs) \in { "+", "-" } THEN Tail(cs) ELSE cs

\* int(value) for a string: blanks around it are ignored, then an optional
\* sign, then decimal digits which single underscores may separate; anything
\* else is a ValueError
ParsesAsInt(value) ==
  LET ds == Unsigned(Strip(Chars(value)))
  IN /\ ds # << >>
     /\ \A i \in 1..Len(ds) : ds[i] \in Digits \cup { "_" }
     /\ \A i \in 1..Len(ds) :
          ds[i] = "_" => (i > 1 /\ i < Len(ds) /\ ds[i - 1] \in Digits /\ ds[i + 1] \in Digits)

IntOf(value) ==
  LET cs == Strip(Chars(value))
      ds == SelectSeq(Unsigned(cs), LAMBDA c : c # "_")
  IN IF Head(cs) = "-" THEN 0 - DigitsValue(ds, 0) ELSE DigitsValue(ds, 0)

\* lines 273-290 with the value tested for truth after conversion, so that 0
\* counts as missing
parse_param_zero_as_missing(params, param) ==
  LET param_name == param.ParameterName
      param_value == param.ParameterValue
  IN IF param_name \in { SlowerThan, MaxLenKey }
        /\ param_value # None /\ param_value # ""
        /\ ParsesAsInt(param_value)
        /\ IntOf(param_value) # 0
     THEN [params EXCEPT ![param_name] = IntOf(param_value)]
     ELSE params

\* lines 273-290: one parameter of a page
parse_param(params, param) ==
  LET param_name == param.ParameterName
      param_value == param.ParameterValue
  IN IF param_name \in { SlowerThan, MaxLenKey }
        /\ param_value # None /\ param_value # ""
        /\ ParsesAsInt(param_value)
     THEN [params EXCEPT ![param_name] = IntOf(param_value)]
     ELSE params

RECURSIVE parse_params(_, _)
parse_params(params, page) ==
  IF page = << >> THEN params
  ELSE parse_params(parse_param(params, Head(page)), Tail(page))

RECURSIVE parse_param_pages(_, _)
parse_param_pages(params, pages) ==
  IF pages = << >> THEN params
  ELSE parse_param_pages(parse_params(params, Head(pages)), Tail(pages))

\* The provider's parameter groups; a group's parameters may be modified
\* between two listings, so a name has several possible listings
ParamGroupNames == { "default.redis7", "custom-pg" }

ListingRedis7 ==
  << << Param(SlowerThan, "5000"), Param("maxmemory-policy", "abc") >>,
     << Param(MaxLenKey, "256") >> >>

ListingRedis7Modified ==
  << << Param(SlowerThan, "0"), Param(MaxLenKey, "") >>,
     << Param(MaxLenKey, None) >> >>

ListingCustom ==
  << << Param(SlowerThan, "abc"), Param(MaxLenKey, "-1"), Param("timeout", "0") >> >>

ParamListings(name) ==
  IF name = "default.redis7" THEN { ListingRedis7, ListingRedis7Modified }
  ELSE { ListingCustom }

\* The parameters a describe_cache_parameters page may hold: the two slow-log
\* names and another one, each with a value that is absent (None), empty, an
\* integer literal in one of the forms int() accepts, or something else
MaxParams == 2

ParamNamePool == { SlowerThan, MaxLenKey, "maxmemory-policy" }

ParamValuePool ==
  { None, "", "0", "5000", "256", "-1", " 42 ", "+7", "1_000", "abc", "1.5", "7_" }

ParamPool == { Param(n, v) : n \in ParamNamePool, v \in ParamValuePool }

\* lines 292-300 with the insertion in a finally clause: reached on failure too
after_query_inserts_always(failed_at) == "lock_insert"

\* lines 267-300: the insertion of lines 292-296 is inside the try block, after
\* the page loop, so a raising page fetch skips it and goes to lines 299-303
after_query(failed_at) ==
  IF failed_at = 0 THEN "lock_insert" ELSE "returned"

(***************************************************************************)
(* _convert_to_model, replication-group branch: the member detail and the  *)
(* slow-log field                                                          *)
(***************************************************************************)

\* An Optional[int]: an integer, or None
SomeInt(v) == [is_none |-> FALSE, value |-> v]

NoneInt == [is_none |-> TRUE, value |-> 0]

\* params.get(key), lines 507-508
dict_get(d, key) == IF key \in DOMAIN d THEN SomeInt(d[key]) ELSE NoneInt

\* field_formatter.py lines 26-32
\* lines 26-32 with a max_len that is not positive taken for disabled too
format_slow_logs_positive_max(slower_than, max_len) ==
  IF slower_than.is_none \/ max_len.is_none THEN "Disabled"
  ELSE IF slower_than.value > 0 /\ max_len.value > 0
  THEN "Enabled/" \o ToString(slower_than.value) \o "/" \o ToString(max_len.value)
  ELSE "Disabled"

format_slow_logs(slower_than, max_len) ==
  IF slower_than.is_none \/ max_len.is_none THEN "Disabled"
  ELSE IF slower_than.value > 0
  THEN "Enabled/" \o ToString(slower_than.value) \o "/" \o ToString(max_len.value)
  ELSE "Disabled"

\* An Optional[bool]: a boolean, or None
SomeBool(v) == [is_none |-> FALSE, value |-> v]

NoneBool == [is_none |-> TRUE, value |-> FALSE]

\* d.get(key, default): None stands for a key the record does not carry
get_or(v, default) == IF v = None THEN default ELSE v

\* field_formatter.py lines 89-91
format_maintenance_window(window) ==
  IF window # None /\ window # "" THEN window \o " UTC" ELSE ""

\* field_formatter.py lines 103-106
format_enabled_disabled(value) ==
  IF value.is_none THEN "N/A"
  ELSE IF value.value THEN "Enabled" ELSE "Disabled"

\* The label of line 57, seven characters outside ASCII (two full-width
\* brackets around five CJK characters), each written as its \uXXXX escape
NoWindowLabel == "\\uff08\\u7121\\u7a97\\u53e3\\u8cc7\\u8a0a\\uff09"

\* field_formatter.py lines 50-58
format_backup(window, retention_days) ==
  IF retention_days.is_none THEN "N/A"
  ELSE IF retention_days.value > 0
  THEN IF window # None
       THEN window \o " UTC/" \o ToString(retention_days.value) \o " days"
       ELSE "Enabled/" \o ToString(retention_days.value) \o " days" \o NoWindowLabel
  ELSE "Disabled"

\* An entry of LogDeliveryConfigurations; DestinationDetails is a dict, empty
\* (EmptyMap) when the entry has no destination
LogConfig(log_type, dest_details) == [LogType |-> log_type, DestinationDetails |-> dest_details]

CloudWatchDest == [CloudWatchLogsDetails |-> "log-group"]

LogConfigChoices ==
  { << >>,
    << LogConfig("slow-log", CloudWatchDest) >>,
    << LogConfig("engine-log", CloudWatchDest) >>,
    << LogConfig("slow-log", EmptyMap) >>,
    << LogConfig("engine-log", CloudWatchDest), LogConfig("slow-log", CloudWatchDest) >> }

\* A describe_replication_groups record with the keys this branch reads, and
\* the parameter-group name the group-level record may carry (None: no such key)
\* The keys of a group record read by lines 415-482.  NodeGroups lists the
\* number of NodeGroupMembers of each node group; None is a key the record
\* does not carry
GroupSettings(node_groups, engine_version, maintenance_window, cluster_enabled, multi_az, auto_failover, transit, at_rest, snapshot_window, snapshot_retention) ==
  [NodeGroups |-> node_groups, EngineVersion |-> engine_version,
   PreferredMaintenanceWindow |-> maintenance_window,
   ClusterEnabled |-> cluster_enabled, MultiAZ |-> multi_az,
   AutomaticFailover |-> auto_failover, TransitEncryptionEnabled |-> transit,
   AtRestEncryptionEnabled |-> at_rest, SnapshotWindow |-> snapshot_window,
   SnapshotRetentionLimit |-> snapshot_retention]

SettingsFull ==
  GroupSettings(<< 2, 2 >>, "6.2", "sun:05:00-sun:06:00", SomeBool(TRUE), "enabled",
                "enabled", SomeBool(TRUE), SomeBool(FALSE), "00:00-01:00", SomeInt(7))

SettingsBare ==
  GroupSettings(<< 1 >>, None, None, NoneBool, None, None, NoneBool, NoneBool, None,
                NoneInt)

SettingsOff ==
  GroupSettings(<< 1, 3 >>, "7.0", "", SomeBool(FALSE), "disabled", "enabling", NoneBool,
                SomeBool(TRUE), None, SomeInt(0))

GroupSettingsChoices == { SettingsFull, SettingsBare, SettingsOff }

GroupRecord(id, member_clusters, log_configs, param_group, settings) ==
  [ReplicationGroupId |-> id, MemberClusters |-> member_clusters,
   LogDeliveryConfigurations |-> log_configs, CacheParameterGroupName |-> param_group]
  @@ settings

GroupRecords ==
  { GroupRecord(id, mc, lc, pg, st) :
      id \in { "rg-east", "rg-west", "rg-a", "rg-n" },
      mc \in { << >>, << "rg-a-001" >> },
      lc \in LogConfigChoices, pg \in { None, "custom-pg" },
      st \in GroupSettingsChoices }

\* What describe_cache_clusters(CacheClusterId=member)["CacheClusters"][0] gives:
\* a detail record, whose CacheParameterGroup may lack a name, or a failure
DetailRecord(engine, param_group, engine_version, maintenance_window) ==
  [failed |-> FALSE, Engine |-> engine, CacheParameterGroupName |-> param_group,
   EngineVersion |-> engine_version, PreferredMaintenanceWindow |-> maintenance_window]

DetailFailure ==
  [failed |-> TRUE, Engine |-> None, CacheParameterGroupName |-> None,
   EngineVersion |-> None, PreferredMaintenanceWindow |-> None]

\* cluster_detail = None (line 400): no detail record
NoDetail == DetailFailure

DetailOutcomes ==
  { DetailFailure,
    DetailRecord("redis", "default.redis7", "7.1", "mon:12:00-mon:13:00"),
    DetailRecord("valkey", None, "8.0", None),
    DetailRecord(None, "custom-pg", None, "") }

\* lines 486-492 with the LogType test left out
slow_log_enabled_any_type(log_delivery_configs) ==
  \E i \in 1..Len(log_delivery_configs) :
    log_delivery_configs[i].DestinationDetails # EmptyMap

\* lines 486-492
slow_log_enabled(log_delivery_configs) ==
  \E i \in 1..Len(log_delivery_configs) :
    /\ log_delivery_configs[i].LogType = "slow-log"
    /\ log_delivery_configs[i].DestinationDetails # EmptyMap

\* lines 456-464
engine_log_enabled(log_delivery_configs) ==
  \E i \in 1..Len(log_delivery_configs) :
    /\ log_delivery_configs[i].LogType = "engine-log"
    /\ log_delivery_configs[i].DestinationDetails # EmptyMap

\* lines 432-434: the members of all node groups
RECURSIVE sum(_)
sum(counts) == IF counts = << >> THEN 0 ELSE Head(counts) + sum(Tail(counts))

\* lines 437-440 and 443-446: value == "enabled" if value else None
enabled_if_set(value) ==
  IF value = None \/ value = "" THEN NoneBool ELSE SomeBool(value = "enabled")

\* lines 415-464 and 475-482, replication-group branch: the fields read from
\* the group record alone
group_fields(rg) ==
  [cluster_mode |-> IF ~rg.ClusterEnabled.is_none /\ rg.ClusterEnabled.value
                    THEN "Enabled" ELSE "Disabled",
   shards |-> Len(rg.NodeGroups),
   nodes |-> sum(rg.NodeGroups),
   multi_az |-> format_enabled_disabled(enabled_if_set(rg.MultiAZ)),
   auto_failover |-> format_enabled_disabled(enabled_if_set(rg.AutomaticFailover)),
   encryption_transit |-> format_enabled_disabled(rg.TransitEncryptionEnabled),
   encryption_rest |-> format_enabled_disabled(rg.AtRestEncryptionEnabled),
   engine_logs |-> IF engine_log_enabled(rg.LogDeliveryConfigurations)
                   THEN "Enabled" ELSE "Disabled",
   backup |-> format_backup(rg.SnapshotWindow, rg.SnapshotRetentionLimit)]

\* A describe_cache_clusters record.  The first six keys are the ones the
\* standalone branch reads; the rest are keys of the replication-group branch
\* that a cluster record may carry as well
ClusterRecord(id, engine, num_cache_nodes, preferred_az, window, rest) ==
  [CacheClusterId |-> id, Engine |-> engine, EngineVersion |-> "1.6.22",
   NumCacheNodes |-> num_cache_nodes, PreferredAvailabilityZone |-> preferred_az,
   PreferredMaintenanceWindow |-> window]
  @@ rest

\* A cluster record with none of the other keys set
RestBare ==
  [MemberClusters |-> << >>, LogDeliveryConfigurations |-> << >>,
   CacheParameterGroupName |-> None]
  @@ SettingsBare

\* A cluster record that carries the keys a replication group would
RestFull ==
  [MemberClusters |-> << "rg-a-001" >>,
   LogDeliveryConfigurations |-> << LogConfig("engine-log", CloudWatchDest),
                                    LogConfig("slow-log", CloudWatchDest) >>,
   CacheParameterGroupName |-> "custom-pg"]
  @@ SettingsFull

ClusterRecords ==
  { ClusterRecord(id, engine, n, az, w, rest) :
      id \in { "mc-1", "rg-east" }, engine \in { "memcached", "redis", None },
      n \in { NoneInt, SomeInt(0), SomeInt(3) },
      az \in { None, "", "us-east-1a" },
      w \in { None, "mon:12:00-mon:13:00" },
      rest \in { RestBare, RestFull } }

\* lines 529-570 with the backup field formatted as in the other branch
cluster_fields_backup_formatted(cluster) ==
  [type |-> Capitalize(get_or(cluster.Engine, "")),
   engine_version |-> get_or(cluster.EngineVersion, ""),
   cluster_mode |-> "N/A",
   shards |-> 0,
   nodes |-> IF cluster.NumCacheNodes.is_none THEN 0 ELSE cluster.NumCacheNodes.value,
   multi_az |-> IF cluster.PreferredAvailabilityZone \notin { None, "" }
                THEN "Disabled" ELSE "N/A",
   auto_failover |-> "N/A",
   encryption_transit |-> "N/A",
   encryption_rest |-> "N/A",
   engine_logs |-> "N/A",
   slow_logs |-> "N/A",
   maintenance_window |->
     format_maintenance_window(get_or(cluster.PreferredMaintenanceWindow, "")),
   backup |-> format_backup(cluster.SnapshotWindow, cluster.SnapshotRetentionLimit)]

\* lines 529-570, standalone branch: the fields after name and role
cluster_fields(cluster) ==
  [type |-> Capitalize(get_or(cluster.Engine, "")),
   engine_version |-> get_or(cluster.EngineVersion, ""),
   cluster_mode |-> "N/A",
   shards |-> 0,
   nodes |-> IF cluster.NumCacheNodes.is_none THEN 0 ELSE cluster.NumCacheNodes.value,
   multi_az |-> IF cluster.PreferredAvailabilityZone \notin { None, "" }
                THEN "Disabled" ELSE "N/A",
   auto_failover |-> "N/A",
   encryption_transit |-> "N/A",
   encryption_rest |-> "N/A",
   engine_logs |-> "N/A",
   slow_logs |-> "N/A",
   maintenance_window |->
     format_maintenance_window(get_or(cluster.PreferredMaintenanceWindow, "")),
   backup |-> "N/A"]

\* A group as the provider lists it in a region: the keys the conversion
\* reads, and the group's engine, which the code does not read from the group
\* record (comment of lines 203-204) and learns from the member detail
ListedGroup(id, engine, node_groups, member_clusters, log_configs) ==
  [Engine |-> engine]
  @@ GroupRecord(id, member_clusters, log_configs, None,
                 [SettingsBare EXCEPT !.NodeGroups = node_groups])

SlowLogDelivery == << LogConfig("slow-log", CloudWatchDest) >>

\* What the provider answers for the first member of a listed group
member_detail(rg) == DetailRecord(rg.Engine, "default.redis7", "7.1", None)

ListedCluster(id, engine, num_cache_nodes) ==
  ClusterRecord(id, engine, SomeInt(num_cache_nodes), None, None, RestBare)

\* Redis and Valkey groups side by side, one of them enrolled in gds-1 (under
\* us-east-1), and standalone clusters of several engines
ListingMixedEngines ==
  RegionInventory(
    << ListedGroup("prod-cache-1", "redis", << 2 >>, << "prod-cache-1-001" >>,
                   SlowLogDelivery),
       ListedGroup("rg-a", "valkey", << 1, 1 >>, << "rg-a-001" >>, << >>),
       ListedGroup("rg-east", "redis", << 2 >>, << "rg-east-001" >>, SlowLogDelivery) >>,
    << ListedCluster("mc-1", "memcached", 3),
       ListedCluster("prod-cache-1", "Memcached", 1),
       ListedCluster("staging-cache-1", "redis", 1) >>)

\* A group listed without node groups and without member clusters, next to a
\* group that has both
ListingNoNodeGroups ==
  RegionInventory(
    << ListedGroup("rg-b", "redis", << >>, << >>, << >>),
       ListedGroup("staging-cache-1", "valkey", << 1 >>, << "staging-cache-1-001" >>,
                   SlowLogDelivery) >>,
    << >>)

RegionListings == { ListingMixedEngines, ListingNoNodeGroups }

RegionEngineChoices ==
  EngineChoices \cup { << "valkey" >>, << "redis", "valkey" >> }

RegionFilterChoices == { None, "prod-*", "rg-*", "gds-*" }

\* lines 496-500: the name comes from the member detail alone
param_group_name_of(rg, cluster_detail) ==
  IF cluster_detail # NoDetail THEN cluster_detail.CacheParameterGroupName ELSE None

\* lines 407-412
type_of(has_members, outcome) ==
  IF has_members /\ ~outcome.failed
  THEN Capitalize(IF outcome.Engine = None THEN "redis" ELSE outcome.Engine)
  ELSE "Redis"

\* lines 418-423 with the group's own version used whatever the detail says
engine_version_from_group(rg, cluster_detail) == get_or(rg.EngineVersion, "")

\* lines 418-423: the member detail's version when there is a detail record
engine_version_of(rg, cluster_detail) ==
  IF cluster_detail # NoDetail
  THEN get_or(cluster_detail.EngineVersion, "")
  ELSE get_or(rg.EngineVersion, "")

\* lines 467-473
maintenance_window_of(rg, cluster_detail) ==
  format_maintenance_window(
    IF cluster_detail # NoDetail
    THEN get_or(cluster_detail.PreferredMaintenanceWindow, "")
    ELSE get_or(rg.PreferredMaintenanceWindow, ""))

\* lines 340-341: the record of a listed group, given what the detail fetch
\* of its first member gave
group_record(rg, global_ds_map, region, outcome) ==
  LET has_members == rg.MemberClusters # << >>
      cluster_detail == IF has_members /\ ~outcome.failed THEN outcome ELSE NoDetail
  IN convert_to_model(rg, global_ds_map, region, TRUE)
     @@ [type |-> type_of(has_members, outcome),
         engine_version |-> engine_version_of(rg, cluster_detail),
         maintenance_window |-> maintenance_window_of(rg, cluster_detail)]
     @@ group_fields(rg)

\* lines 356-357: the record of a listed cluster
cluster_record(cluster, global_ds_map, region) ==
  convert_to_model(cluster, global_ds_map, region, FALSE) @@ cluster_fields(cluster)

\* The topology the conversions of this part are made under
ConvertTopology == get_global_datastores(<< PageEastWest >>, 0)

\* The maps _get_global_datastores can hand to a conversion
ConvertTopologies ==
  { ConvertTopology, get_global_datastores(<< PageMixedCase, PageNoId >>, 0) }

(***************************************************************************)
(* handle_aws_errors: the retry and classification wrapper                 *)
(***************************************************************************)

\* line 40
max_retries == 3

\* line 41
retry_delay == 1

\* What one provider call can raise.  A ClientError carries the response's
\* Error.Code and Error.Message, either of which may be missing (None)
ClientError(code, message) == [type |-> "ClientError", code |-> code, message |-> message]

BotoError(type) == [type |-> type, code |-> None, message |-> None]

Ok == BotoError("ok")

ProviderErrors ==
  { ClientError("Throttling", "Rate exceeded"),
    ClientError("RequestLimitExceeded", "Request limit exceeded"),
    ClientError("AccessDenied", "not authorized"),
    ClientError("UnauthorizedOperation", "not authorized"),
    ClientError("InvalidParameterValue", "bad value"),
    ClientError("ServiceUnavailable", "try later"),
    ClientError(None, None),
    BotoError("NoCredentialsError"),
    BotoError("EndpointConnectionError"),
    BotoError("KeyError") }

ProviderOutcomes == { Ok } \cup ProviderErrors

\* botocore.exceptions: NoCredentialsError and EndpointConnectionError derive
\* from BotoCoreError; ClientError derives from Exception only
IsInstance(e, class) ==
  \/ e.type = class
  \/ class = "BotoCoreError" /\ e.type \in { "NoCredentialsError", "EndpointConnectionError" }
  \/ class = "Exception" /\ e.type # "ok"

\* str(e) of a ClientError
StrOfError(e) == "An error occurred"

\* line 47
error_code_of(e) == IF e.code = None THEN "Unknown" ELSE e.code

\* line 48
error_message_of(e) == IF e.message = None THEN StrOfError(e) ELSE e.message

\* line 53
wait_time(attempt) == retry_delay * (2 ^ attempt)

\* lines 51-52: whether a ClientError is retried (always-retry variant first)
retries_regardless_of_attempt(e, attempt) ==
  error_code_of(e) \in { "Throttling", "RequestLimitExceeded" }

retries(e, attempt) ==
  /\ error_code_of(e) \in { "Throttling", "RequestLimitExceeded" }
  /\ attempt < max_retries - 1

AWSError(class, operation, code, message, region, original_error) ==
  [class |-> class, operation |-> operation, error_code |-> code,
   error_message |-> message, region |-> region, original_error |-> original_error]

\* lines 46-81 with the handlers tried in the opposite order: BotoCoreError
\* before NoCredentialsError
classify_transport_first(e, operation, region) ==
  IF IsInstance(e, "ClientError")
  THEN LET error_code == error_code_of(e)
       IN IF error_code \in { "AccessDenied", "UnauthorizedOperation" }
          THEN AWSError("AWSPermissionError", operation, None, None, None, e)
          ELSE IF error_code = "InvalidParameterValue"
          THEN AWSError("AWSInvalidParameterError", None, None, None, None, e)
          ELSE AWSError("AWSAPIError", operation, error_code, error_message_of(e), None, e)
  ELSE IF IsInstance(e, "BotoCoreError")
  THEN AWSError("AWSConnectionError", None, None, None, region, e)
  ELSE IF IsInstance(e, "NoCredentialsError")
  THEN AWSError("AWSCredentialsError", None, None, None, None, e)
  ELSE e

\* lines 46-81: what the wrapper raises for a failure it does not retry; an
\* exception none of the handlers names propagates as it is
classify(e, operation, region) ==
  IF IsInstance(e, "ClientError")
  THEN LET error_code == error_code_of(e)
       IN IF error_code \in { "AccessDenied", "UnauthorizedOperation" }
          THEN AWSError("AWSPermissionError", operation, None, None, None, e)
          ELSE IF error_code = "InvalidParameterValue"
          THEN AWSError("AWSInvalidParameterError", None, None, None, None, e)
          ELSE AWSError("AWSAPIError", operation, error_code, error_message_of(e), None, e)
  ELSE IF IsInstance(e, "NoCredentialsError")
  THEN AWSError("AWSCredentialsError", None, None, None, None, e)
  ELSE IF IsInstance(e, "BotoCoreError")
  THEN AWSError("AWSConnectionError", None, None, None, region, e)
  ELSE e

\* The client's provider calls: the method making the call, the API it calls,
\* whether the method is decorated with handle_aws_errors, and whether the
\* call sits in a try block whose "except Exception" absorbs the failure
\* before the decorator can see it
CallSite(func, api, wrapped, absorbed) ==
  [func |-> func, api |-> api, wrapped |-> wrapped, absorbed |-> absorbed]

CallSites ==
  { CallSite("_get_global_datastores", "describe_global_replication_groups", TRUE, TRUE),
    CallSite("_get_replication_groups", "describe_replication_groups", TRUE, FALSE),
    CallSite("_get_cache_clusters", "describe_cache_clusters", TRUE, FALSE),
    CallSite("_get_parameter_group_params", "describe_cache_parameters", TRUE, TRUE),
    CallSite("_convert_to_model", "describe_cache_clusters", FALSE, TRUE) }

\* What the method's own body lets out when its provider call ends with e
func_outcome(site, e) == IF site.absorbed THEN Ok ELSE e

(***************************************************************************)
(* State                                                                   *)
(***************************************************************************)

\* get_elasticache_info and the provider it reads
VARIABLES
  pc,                \* where get_elasticache_info stands
  self_region,       \* self.region, the home region
  engines,           \* argument
  cluster_filter,    \* argument
  gds_pages,         \* provider: the pages of the global-construct listing
  gds_fail_at,       \* provider: the page whose fetch raises (0: none)
  inventory,         \* provider: the groups and clusters of each region
  global_ds_map,     \* the resolved TopologyMap
  regions_to_query,
  futures,           \* future_to_region: the submitted tasks, in submission order
  completed,         \* the futures as_completed has yielded, in that order
  all_results,
  returned,          \* the list get_elasticache_info returns
  clients,           \* the ElastiCacheClient instances made so far: the region
                     \* each is bound to; 0 is self, f the one task f created
  api_calls,         \* the provider calls made so far: through which instance,
                     \* which operation, by which task (0: the main thread)
  task_at,           \* where the worker thread of each task stands: "queued",
                     \* "created", "in_groups", then for each group that has
                     \* member clusters "converting", "in_detail", "lookup" and
                     \* "in_lookup", then "groups_done", "in_clusters",
                     \* "clusters_done" or "ended"
  task_conv          \* the conversion each task is in: i, the index of the
                     \* group among those it converts (0: none), and detail,
                     \* the cluster_detail of line 400

client_vars == << clients, api_calls, task_at, task_conv >>

orch_vars ==
  << pc, self_region, engines, cluster_filter, gds_pages, gds_fail_at, inventory,
     global_ds_map, regions_to_query, futures, completed, all_results, returned,
     client_vars >>

world_vars ==
  << self_region, engines, cluster_filter, gds_pages, gds_fail_at, inventory >>

\* _get_parameter_group_params, per calling thread, and the class-level cache
VARIABLES
  shared_param_cache,   \* ElastiCacheClient._shared_param_cache
  cache_lock,           \* ElastiCacheClient._cache_lock: the holder, or 0
  tpc,                  \* where each thread stands in _get_parameter_group_params
  call_name,            \* its parameter_group_name
  params,               \* its local params
  listing,              \* the pages the provider serves its query
  fail_at,              \* the page of that query whose fetch raises (0: none)
  pages_read,           \* the pages of that query fetched and read so far
  ret,                  \* what its last call returned
  queried,              \* whether its current call has issued the API query
  overlapped,           \* the threads whose current or last call overlapped its own
  started_uncached,     \* whether its name was absent from the cache when it called
  calls_made,           \* the calls begun so far, by all threads
  paginate_calls,       \* describe_cache_parameters queries issued, per name
  preceded              \* the threads whose last call had returned when its own began

cache_vars ==
  << shared_param_cache, cache_lock, tpc, call_name, params, listing, fail_at,
     pages_read, ret, queried, overlapped, started_uncached, calls_made,
     paginate_calls, preceded >>

\* One call through handle_aws_errors (or, for the one undecorated provider
\* call, straight to the provider)
VARIABLES
  w_pc,             \* idle, invoke, sleeping, returned or raised
  w_site,           \* the call site
  w_region,         \* args[0].region
  w_attempt,        \* the loop variable of line 43
  w_invocations,    \* how many times func has been invoked
  w_api_outcomes,   \* what each provider call ended with
  w_outcomes,       \* what each invocation of func let out
  w_sleeps,         \* the waits of line 57, in order
  w_result          \* what the call returned or raised

wrapper_vars ==
  << w_pc, w_site, w_region, w_attempt, w_invocations, w_api_outcomes, w_outcomes,
     w_sleeps, w_result >>

\* The loop of lines 271-290 over the parameters of a listing
VARIABLES
  ps_params,        \* params
  ps_prev,          \* params before the last iteration
  ps_param,         \* the parameter of the last iteration
  ps_count          \* the iterations made

parse_vars == << ps_params, ps_prev, ps_param, ps_count >>

\* One _convert_to_model call on a replication group
VARIABLES
  cv_pc,            \* idle, detail, slow_logs, lookup or done
  cv_rg,            \* rg_or_cluster
  cv_region,        \* current_region
  cv_map,           \* global_ds_map
  cv_detail,        \* cluster_detail (NoDetail until fetched, and after a failure)
  cv_detail_calls,  \* describe_cache_clusters calls made
  cv_lookups,       \* the names passed to _get_parameter_group_params
  cv_info           \* the ElastiCacheInfo being filled

convert_vars ==
  << cv_pc, cv_rg, cv_region, cv_map, cv_detail, cv_detail_calls, cv_lookups, cv_info >>

\* One _convert_to_model call on a standalone cluster
VARIABLES
  sc_pc,            \* idle or done
  sc_cluster,       \* rg_or_cluster
  sc_region,        \* current_region
  sc_map,           \* global_ds_map
  sc_info           \* the ElastiCacheInfo returned

standalone_vars == << sc_pc, sc_cluster, sc_region, sc_map, sc_info >>

\* One _query_single_region call of a regional client
VARIABLES
  rq_pc,            \* idle, list_groups, groups, list_clusters, clusters, done, raised
  rq_listing,       \* what the provider lists in the client's region
  rq_region,        \* region
  rq_engines,       \* engines
  rq_filter,        \* cluster_filter
  rq_map,           \* global_ds_map
  rq_groups,        \* replication_groups, as _get_replication_groups returned them
  rq_clusters,      \* cache_clusters, as _get_cache_clusters returned them
  rq_i,             \* position of the loop in progress
  rq_results,       \* results
  rq_skipped,       \* identifiers the filter passed over
  rq_detail_calls,  \* CacheClusterIds passed to describe_cache_clusters
  rq_lookups,       \* names passed to _get_parameter_group_params
  rq_info,          \* the record under construction while its lookup is made
  rq_exc            \* the exception the call ended with, or None

region_vars ==
  << rq_pc, rq_listing, rq_region, rq_engines, rq_filter, rq_map, rq_groups,
     rq_clusters, rq_i, rq_results, rq_skipped, rq_detail_calls, rq_lookups, rq_info,
     rq_exc >>

\* One call of FieldFormatter.format_backup
VARIABLES
  fb_pc,            \* "idle", then "done" once the call returned
  fb_window,        \* the window argument: a string, or None
  fb_retention,     \* the retention_days argument: an Optional[int]
  fb_out            \* the string returned

\* One call of FieldFormatter.format_slow_logs
VARIABLES
  sl_pc,            \* "idle", then "done" once the call returned
  sl_slower_than,   \* the slower_than argument: an Optional[int]
  sl_max_len,       \* the max_len argument: an Optional[int]
  sl_out            \* the string returned

\* FieldFormatter.format_cluster_name, applied and applied again to its result
VARIABLES
  cn_pc,            \* "idle", then "done" once both calls returned
  cn_global_ds_id,  \* the global_ds_id argument of both calls: a string, or None
  cn_cluster_id,    \* the cluster_id argument of the first call
  cn_once,          \* what the first call returned
  cn_twice          \* what the call on cn_once returned

\* One call of _get_replication_groups or _get_cache_clusters through
\* handle_aws_errors, one page of the paginator a step
VARIABLES
  en_pc,            \* "idle", "invoke", "paging", "sleeping", "returned" or "raised"
  en_kind,          \* "groups" or "clusters": which of the two methods is called
  en_pages,         \* the pages the provider serves, the same on every attempt
  en_filter,        \* the engine_filter argument
  en_attempt,       \* attempt of the wrapper's loop (line 43)
  en_i,             \* the page the iterator fetches next
  en_items,         \* the local list of the invocation (lines 190 and 223)
  en_discarded,     \* what the list held each time an attempt was abandoned
  en_out            \* the list returned, or the class of the exception raised

backup_vars == << fb_pc, fb_window, fb_retention, fb_out >>

slow_log_vars == << sl_pc, sl_slower_than, sl_max_len, sl_out >>

name_vars == << cn_pc, cn_global_ds_id, cn_cluster_id, cn_once, cn_twice >>

format_vars == << backup_vars, slow_log_vars, name_vars >>

enum_vars ==
  << en_pc, en_kind, en_pages, en_filter, en_attempt, en_i, en_items, en_discarded,
     en_out >>

outside_orch ==
  << cache_vars, wrapper_vars, parse_vars, convert_vars, standalone_vars,
     region_vars, format_vars, enum_vars >>

outside_cache ==
  << orch_vars, wrapper_vars, parse_vars, convert_vars, standalone_vars,
     region_vars, format_vars, enum_vars >>

outside_wrapper ==
  << orch_vars, cache_vars, parse_vars, convert_vars, standalone_vars,
     region_vars, format_vars, enum_vars >>

outside_parse ==
  << orch_vars, cache_vars, wrapper_vars, convert_vars, standalone_vars,
     region_vars, format_vars, enum_vars >>

outside_convert ==
  << orch_vars, cache_vars, wrapper_vars, parse_vars, standalone_vars,
     region_vars, format_vars, enum_vars >>

outside_standalone ==
  << orch_vars, cache_vars, wrapper_vars, parse_vars, convert_vars,
     region_vars, format_vars, enum_vars >>

outside_region ==
  << orch_vars, cache_vars, wrapper_vars, parse_vars, convert_vars,
     standalone_vars, format_vars, enum_vars >>

outside_format ==
  << orch_vars, cache_vars, wrapper_vars, parse_vars, convert_vars,
     standalone_vars, region_vars, enum_vars >>

outside_enum ==
  << orch_vars, cache_vars, wrapper_vars, parse_vars, convert_vars,
     standalone_vars, region_vars, format_vars >>

vars ==
  << orch_vars, cache_vars, wrapper_vars, parse_vars, convert_vars,
     standalone_vars, region_vars, format_vars, enum_vars >>

(***************************************************************************)
(* The region fan-out: get_elasticache_info                                *)
(***************************************************************************)

\* sorted(set of strings)
RECURSIVE sorted(_)
sorted(S) ==
  IF S = {} THEN << >>
  ELSE LET least == CHOOSE x \in S : \A y \in S \ { x } : StrLess(x, y)
       IN << least >> \o sorted(S \ { least })

\* Mutant of insert_by_region: a record goes in front of the records of its
\* own region, so the sort is not stable
RECURSIVE insert_before_equal(_, _)
insert_before_equal(rec, list) ==
  IF list = << >> THEN << rec >>
  ELSE IF ~StrLess(Head(list).region, rec.region) THEN << rec >> \o list
  ELSE << Head(list) >> \o insert_before_equal(rec, Tail(list))

\* list.sort(key=lambda x: x.region): a stable sort; each record goes behind
\* the records whose region is not greater than its own
RECURSIVE insert_by_region(_, _)
insert_by_region(rec, list) ==
  IF list = << >> THEN << rec >>
  ELSE IF StrLess(rec.region, Head(list).region) THEN << rec >> \o list
  ELSE << Head(list) >> \o insert_by_region(rec, Tail(list))

\* Mutant of sort_by_region: the list is returned in completion order
sort_skipped(list) == list

RECURSIVE sort_by_region(_)
sort_by_region(list) ==
  IF list = << >> THEN << >>
  ELSE insert_by_region(list[Len(list)], sort_by_region(SubSeq(list, 1, Len(list) - 1)))

\* Mutant of Handles: only the two named error classes are caught
HandlesNamedOnly(exc) == exc \in { "AWSPermissionError", "AWSConnectionError" }

\* The classes of the runtime that do not derive from Exception: BaseException
\* itself and, of the built-in classes and the standard library, those whose
\* base is BaseException (BaseExceptionGroup since Python 3.11). CancelledError
\* is the class of asyncio; the one of concurrent.futures derives from
\* Exception and is written "concurrent.futures.CancelledError"
BaseExceptionsOnly ==
  { "BaseException", "BaseExceptionGroup", "CancelledError", "GeneratorExit",
    "KeyboardInterrupt", "SystemExit" }

\* line 661: except (AWSPermissionError, AWSConnectionError, Exception): the
\* tuple names Exception, so the clause catches an exception of any class
\* that derives from it, whether the model lists the class or not, and lets
\* through an exception of a class that does not: future.result() raises it
\* out of get_elasticache_info
Handles(exc) ==
  exc \in { "AWSPermissionError", "AWSConnectionError" } \/ exc \notin BaseExceptionsOnly

\* Mutant of RegionsToQuery: the regions of the topology are not added
RegionsToQueryHomeOnly(home, map) == { home }

\* lines 628-629
RegionsToQuery(home, map) == { home } \cup DOMAIN map

\* Mutant of NewFuture: the name filter is not passed on to the task
NewFutureWithoutFilter(region, engs, filter, map) ==
  [region |-> region, engines |-> engs, cluster_filter |-> None,
   global_ds_map |-> map, state |-> "pending", exc |-> None, results |-> << >>]

\* line 644: the task submitted for a region
NewFuture(region, engs, filter, map) ==
  [region |-> region, engines |-> engs, cluster_filter |-> filter,
   global_ds_map |-> map, state |-> "pending", exc |-> None, results |-> << >>]

\* One provider call: the instance whose self.client made it, the operation,
\* and the task that made it (0: the main thread)
ApiCall(client, op, task) == [client |-> client, op |-> op, task |-> task]

\* One task for every region that can be queried
TaskIds == 1..Cardinality(Regions)

\* No call of _convert_to_model is in progress
NotConverting == [i |-> 0, detail |-> NoDetail]

\* line 399: rg_or_cluster.get("MemberClusters", [])
member_clusters_of(rg) ==
  IF "MemberClusters" \in DOMAIN rg THEN rg.MemberClusters ELSE << >>

\* lines 331-341 and 399-412: the first group from groups[i] on whose
\* conversion makes a provider call, Len(groups) + 1 when there is none; a
\* group without member clusters is converted without any call
RECURSIVE next_calling(_, _)
next_calling(groups, i) ==
  IF i > Len(groups) \/ member_clusters_of(groups[i]) # << >> THEN i
  ELSE next_calling(groups, i + 1)

\* lines 111-116: the caller's instance, bound to self.region, exists; nothing
\* has been called
ClientInit ==
  /\ clients = (0 :> self_region)
  /\ api_calls = {}
  /\ task_at = [f \in TaskIds |-> "queued"]
  /\ task_conv = [f \in TaskIds |-> NotConverting]

\* lines 388-389 as global_ds_map.setdefault(current_region, {}): a region
\* that is missing from the map is added to it
map_after_lookup_setdefault(map, region, rg_id) ==
  IF region \in DOMAIN map THEN map ELSE (region :> EmptyMap) @@ map

\* lines 388-390: global_ds_map.get(current_region, {}) and region_map.get(
\* rg_id, {}) read the shared dict and leave it as it is
map_after_lookup(map, region, rg_id) == map

\* The replication groups a task converts before it returns or raises
converted_groups(region, engs, filter, inv, fault) ==
  IF fault.at \in { "client", "replication_groups" }
       \/ ~(InList("redis", engs) \/ InList("valkey", engs))
  THEN << >>
  ELSE SelectSeq(get_replication_groups(inv.ReplicationGroups,
                                        SelectSeq(engs, LAMBDA e : e \in { "redis", "valkey" })),
                 LAMBDA rg : PassesFilter(filter, rg.ReplicationGroupId))

\* The shared map after the conversions of groups[i], groups[i+1], ...
RECURSIVE map_after_conversions(_, _, _, _)
map_after_conversions(map, region, groups, i) ==
  IF i > Len(groups) THEN map
  ELSE map_after_conversions(map_after_lookup(map, region, groups[i].ReplicationGroupId), region, groups, i + 1)

\* lines 596-600 with the query made on self instead of region_client
task_client_self(f) == 0

\* lines 596-600: the instance task f creates, on which it runs the query
task_client(f) == f

OrchInit ==
  /\ pc = "Init"
  /\ self_region \in HomeRegions
  /\ engines \in EngineChoices
  /\ cluster_filter \in FilterChoices
  /\ gds_pages \in GlobalListings
  /\ gds_fail_at \in 0..Len(gds_pages)
  /\ inventory \in Inventories
  /\ global_ds_map = EmptyMap
  /\ regions_to_query = {}
  /\ futures = << >>
  /\ completed = << >>
  /\ all_results = << >>
  /\ returned = << >>
  /\ ClientInit

\* lines 621-622
Start ==
  /\ pc = "Init"
  /\ pc' = "ResolvingTopology"
  /\ all_results' = << >>
  /\ UNCHANGED outside_orch
  /\ UNCHANGED << world_vars, global_ds_map, regions_to_query, futures, completed,
                  returned, client_vars >>

\* lines 625-631
ResolveTopology ==
  /\ pc = "ResolvingTopology"
  /\ global_ds_map' = get_global_datastores(gds_pages, gds_fail_at)
  /\ regions_to_query' = RegionsToQuery(self_region, global_ds_map')
  /\ api_calls' = api_calls \cup { ApiCall(0, "describe_global_replication_groups", 0) }
  /\ pc' = "Dispatching"
  /\ UNCHANGED outside_orch
  /\ UNCHANGED << world_vars, futures, completed, all_results, returned, clients,
                  task_at, task_conv >>

\* lines 639-647: one pass of the submission loop
Submit ==
  /\ pc = "Dispatching"
  /\ LET order == sorted(regions_to_query)
         i == Len(futures) + 1
     IN /\ futures' = Append(futures,
                             NewFuture(order[i], engines, cluster_filter, global_ds_map))
        /\ pc' = IF i = Len(order) THEN "Collecting" ELSE "Dispatching"
  /\ UNCHANGED outside_orch
  /\ UNCHANGED << world_vars, global_ds_map, regions_to_query, completed,
                  all_results, returned, client_vars >>

\* lines 601-603 and 654-660: the future of task f is resolved with what
\* _query_region_wrapper returns or raises when the provider fails as in fault
EndTask(f, fault) ==
  \E outcome \in
       { query_region_wrapper(futures[f].region, futures[f].engines,
                              futures[f].cluster_filter, futures[f].global_ds_map,
                              inventory[futures[f].region], fault) } :
     /\ futures' = [futures EXCEPT
                      ![f].state = IF outcome.exc = None THEN "finished" ELSE "raised",
                      ![f].exc = outcome.exc,
                      ![f].results = outcome.results]
     /\ task_at' = [task_at EXCEPT ![f] = "ended"]

\* lines 326-345: the listing a task makes next, None when none is left
next_listing(engs, at) ==
  IF at = "created" /\ (InList("redis", engs) \/ InList("valkey", engs))
  THEN "describe_replication_groups"
  ELSE IF at \in { "created", "groups_done" } /\ InList("memcached", engs)
  THEN "describe_cache_clusters"
  ELSE None

\* lines 596-597: a worker thread starts the task and creates the client of
\* the task's region, or the creation raises
TaskStart(f) ==
  /\ futures[f].state = "pending"
  /\ task_at[f] = "queued"
  /\ \E fault \in { x \in Faults : x.at \in { "none", "client" } } :
       IF fault.at = "client"
       THEN /\ EndTask(f, fault)
            /\ clients' = clients
       ELSE /\ clients' = (f :> futures[f].region) @@ clients
            /\ task_at' = [task_at EXCEPT ![f] = "created"]
            /\ futures' = futures
  /\ UNCHANGED outside_orch
  /\ UNCHANGED << pc, world_vars, global_ds_map, regions_to_query, completed,
                  all_results, returned, api_calls, task_conv >>

\* lines 329 and 345, down to the paginator: the task enters the provider
\* call of its next listing, through its client
TaskCall(f) ==
  /\ futures[f].state = "pending"
  /\ next_listing(futures[f].engines, task_at[f]) # None
  /\ api_calls' = api_calls
                    \cup { ApiCall(task_client(f),
                                   next_listing(futures[f].engines, task_at[f]), f) }
  /\ task_at' = [task_at EXCEPT
                   ![f] = IF next_listing(futures[f].engines, @) = "describe_replication_groups"
                          THEN "in_groups" ELSE "in_clusters"]
  /\ UNCHANGED outside_orch
  /\ UNCHANGED << pc, world_vars, global_ds_map, regions_to_query, futures, completed,
                  all_results, returned, clients, task_conv >>

\* The replication groups task f converts when its listing returns them
groups_of(f) ==
  converted_groups(futures[f].region, futures[f].engines, futures[f].cluster_filter,
                   inventory[futures[f].region], NoFault)

\* lines 331-341 and 380-403: the loop over the groups goes on from groups[i]
\* up to the next provider call. The groups without member clusters are
\* converted on the way (lines 388-390 read the map); at the first group j
\* that has member clusters the conversion has read the map and stands before
\* the detail call of line 404; when there is none the loop is over
ConvertUpToCall(f, i) ==
  \E groups \in { groups_of(f) } : \E j \in { next_calling(groups, i) } :
     /\ task_at' = [task_at EXCEPT
                      ![f] = IF j > Len(groups) THEN "groups_done" ELSE "converting"]
     /\ task_conv' = [task_conv EXCEPT
                        ![f] = IF j > Len(groups) THEN NotConverting
                               ELSE [i |-> j, detail |-> NoDetail]]
     /\ global_ds_map' =
          map_after_conversions(global_ds_map, futures[f].region,
                                SubSeq(groups, 1, IF j > Len(groups) THEN Len(groups) ELSE j),
                                i)

\* lines 329-341 and 345-357: the listing in progress returns and its items
\* are converted (region, name and role come from the map alone) up to the
\* first conversion that calls the provider, or, with a fault, the listing
\* raises out of the task
TaskCallEndsWith(f, fault) ==
  /\ futures[f].state = "pending"
  /\ task_at[f] \in { "in_groups", "in_clusters" }
  /\ fault.at \in { "none", IF task_at[f] = "in_groups"
                             THEN "replication_groups" ELSE "cache_clusters" }
  /\ IF fault.at = "none"
     THEN /\ IF task_at[f] = "in_groups"
             THEN ConvertUpToCall(f, 1)
             ELSE /\ task_at' = [task_at EXCEPT ![f] = "clusters_done"]
                  /\ UNCHANGED << global_ds_map, task_conv >>
          /\ futures' = futures
     ELSE /\ EndTask(f, fault)
          /\ UNCHANGED << global_ds_map, task_conv >>
  /\ UNCHANGED outside_orch
  /\ UNCHANGED << pc, world_vars, regions_to_query, completed, all_results, returned,
                  clients, api_calls >>

\* The listing in progress ends in any of the ways the provider allows
TaskCallEnds(f) == \E fault \in Faults : TaskCallEndsWith(f, fault)

\* lines 360 and 601-603: no listing is left, the task returns its records
TaskReturn(f) ==
  /\ futures[f].state = "pending"
  /\ task_at[f] \in { "created", "groups_done", "clusters_done" }
  /\ next_listing(futures[f].engines, task_at[f]) = None
  /\ EndTask(f, NoFault)
  /\ UNCHANGED outside_orch
  /\ UNCHANGED << pc, world_vars, global_ds_map, regions_to_query, completed,
                  all_results, returned, clients, api_calls, task_conv >>

\* A step of the worker thread that runs task f
TaskStep(f) == TaskStart(f) \/ TaskCall(f) \/ TaskCallEnds(f) \/ TaskReturn(f)

\* lines 650-664: one pass of the as_completed loop
\* lines 650-663 with the except branch appending a placeholder record for
\* the region whose task raised
CollectMarkingFailure(f) ==
  /\ pc = "Collecting"
  /\ futures[f].state # "pending"
  /\ ~InList(f, completed)
  /\ completed' = Append(completed, f)
  /\ IF futures[f].state = "finished"
     THEN /\ all_results' = all_results \o futures[f].results
          /\ pc' = pc
     ELSE /\ all_results' = Append(all_results, [region |-> futures[f].region, name |-> "", role |-> ""])
          /\ pc' = IF Handles(futures[f].exc) THEN pc ELSE "Raised"
  /\ UNCHANGED outside_orch
  /\ UNCHANGED << world_vars, global_ds_map, regions_to_query, futures, returned,
                  client_vars >>

Collect(f) ==
  /\ pc = "Collecting"
  /\ futures[f].state # "pending"
  /\ ~InList(f, completed)
  /\ completed' = Append(completed, f)
  /\ IF futures[f].state = "finished"
     THEN /\ all_results' = all_results \o futures[f].results
          /\ pc' = pc
     ELSE /\ all_results' = all_results
          /\ pc' = IF Handles(futures[f].exc) THEN pc ELSE "Raised"
  /\ UNCHANGED outside_orch
  /\ UNCHANGED << world_vars, global_ds_map, regions_to_query, futures, returned,
                  client_vars >>

\* lines 650-670 with the sort and the return inside the as_completed loop:
\* the list is returned once the first future has been handled
ReturnAfterFirstFuture ==
  /\ pc = "Collecting"
  /\ Len(completed) >= 1
  /\ all_results' = sort_by_region(all_results)
  /\ returned' = all_results'
  /\ pc' = "Done"
  /\ UNCHANGED outside_orch
  /\ UNCHANGED << world_vars, global_ds_map, regions_to_query, futures, completed,
                  client_vars >>

\* lines 666-670
Return ==
  /\ pc = "Collecting"
  /\ Len(completed) = Len(futures)
  /\ all_results' = sort_by_region(all_results)
  /\ returned' = all_results'
  /\ pc' = "Done"
  /\ UNCHANGED outside_orch
  /\ UNCHANGED << world_vars, global_ds_map, regions_to_query, futures, completed,
                  client_vars >>

Next ==
  \/ Start
  \/ ResolveTopology
  \/ Submit
  \/ \E f \in 1..Len(futures) : TaskStart(f)
  \/ \E f \in 1..Len(futures) : TaskCall(f)
  \/ \E f \in 1..Len(futures) : TaskCallEnds(f)
  \/ \E f \in 1..Len(futures) : TaskReturn(f)
  \/ \E f \in 1..Len(futures) : Collect(f)
  \/ Return

(***************************************************************************)
(* Layer 4: the shared parameter cache, _get_parameter_group_params        *)
(***************************************************************************)

InCall(t) == tpc[t] \notin { "idle", "returned" }

\* No thread is inside _get_parameter_group_params and none has called it
CacheAtRest ==
  /\ cache_lock = 0
  /\ tpc = [t \in Threads |-> "idle"]
  /\ call_name = [t \in Threads |-> ""]
  /\ params = [t \in Threads |-> DefaultParams]
  /\ listing = [t \in Threads |-> << >>]
  /\ fail_at = [t \in Threads |-> 0]
  /\ pages_read = [t \in Threads |-> 0]
  /\ ret = [t \in Threads |-> DefaultParams]
  /\ queried = [t \in Threads |-> FALSE]
  /\ overlapped = [t \in Threads |-> {}]
  /\ started_uncached = [t \in Threads |-> FALSE]
  /\ calls_made = 0
  /\ paginate_calls = [n \in ParamGroupNames |-> 0]
  /\ preceded = [t \in Threads |-> {}]

\* line 101: the class-level dict is empty when the class is defined
CacheInit ==
  /\ shared_param_cache = EmptyMap
  /\ CacheAtRest

\* A thread calls _get_parameter_group_params(name)
Calls(t, name) ==
  /\ tpc[t] \in { "idle", "returned" }
  /\ calls_made < MaxCalls
  /\ tpc' = [tpc EXCEPT ![t] = "lock_check"]
  /\ call_name' = [call_name EXCEPT ![t] = name]
  /\ calls_made' = calls_made + 1
  /\ queried' = [queried EXCEPT ![t] = FALSE]
  /\ overlapped' = [u \in Threads |->
                      IF u = t THEN { v \in Threads \ { t } : InCall(v) }
                      ELSE IF InCall(u) THEN overlapped[u] \cup { t }
                      ELSE overlapped[u] \ { t }]
  /\ started_uncached' =
       [started_uncached EXCEPT ![t] = name \notin DOMAIN shared_param_cache]
  /\ preceded' = [u \in Threads |->
                    IF u = t THEN { v \in Threads \ { t } : tpc[v] = "returned" }
                    ELSE preceded[u] \ { t }]
  /\ UNCHANGED << shared_param_cache, cache_lock, params, listing, fail_at, pages_read, ret,
                  paginate_calls >>

\* The same call with nothing else followed
Call(t, name) ==
  /\ Calls(t, name)
  /\ UNCHANGED outside_cache

\* line 254: with self._cache_lock
AcquireCheck(t) ==
  /\ tpc[t] = "lock_check"
  /\ cache_lock = 0
  /\ cache_lock' = t
  /\ tpc' = [tpc EXCEPT ![t] = "check"]
  /\ UNCHANGED outside_cache
  /\ UNCHANGED << shared_param_cache, call_name, params, listing, fail_at, pages_read, ret,
                  queried, overlapped, started_uncached, calls_made, paginate_calls,
                  preceded >>

\* lines 254-257 with the lock acquired and released by hand, the release
\* missing on the path of a miss
CheckKeepingLockOnMiss(t) ==
  /\ tpc[t] = "check"
  /\ IF call_name[t] \in DOMAIN shared_param_cache
     THEN /\ ret' = [ret EXCEPT ![t] = shared_param_cache[call_name[t]]]
          /\ tpc' = [tpc EXCEPT ![t] = "returned"]
          /\ cache_lock' = 0
     ELSE /\ ret' = ret
          /\ tpc' = [tpc EXCEPT ![t] = "miss"]
          /\ cache_lock' = cache_lock
  /\ UNCHANGED outside_cache
  /\ UNCHANGED << shared_param_cache, call_name, params, listing, fail_at, pages_read, queried,
                  overlapped, started_uncached, calls_made, paginate_calls, preceded >>

\* lines 255-257: a hit returns the cached entry; either way the lock is released
Check(t) ==
  /\ tpc[t] = "check"
  /\ cache_lock' = 0
  /\ IF call_name[t] \in DOMAIN shared_param_cache
     THEN /\ ret' = [ret EXCEPT ![t] = shared_param_cache[call_name[t]]]
          /\ tpc' = [tpc EXCEPT ![t] = "returned"]
     ELSE /\ ret' = ret
          /\ tpc' = [tpc EXCEPT ![t] = "miss"]
  /\ UNCHANGED outside_cache
  /\ UNCHANGED << shared_param_cache, call_name, params, listing, fail_at, pages_read, queried,
                  overlapped, started_uncached, calls_made, paginate_calls, preceded >>

\* lines 262-269: the defaults, then the query is issued
IssueQuery(t) ==
  /\ tpc[t] = "miss"
  /\ params' = [params EXCEPT ![t] = DefaultParams]
  /\ paginate_calls' = [paginate_calls EXCEPT ![call_name[t]] = @ + 1]
  /\ queried' = [queried EXCEPT ![t] = TRUE]
  /\ \E l \in ParamListings(call_name[t]) : \E k \in 0..Len(l) :
       /\ listing' = [listing EXCEPT ![t] = l]
       /\ fail_at' = [fail_at EXCEPT ![t] = k]
  /\ pages_read' = [pages_read EXCEPT ![t] = 0]
  /\ tpc' = [tpc EXCEPT ![t] = "querying"]
  /\ UNCHANGED << shared_param_cache, cache_lock, call_name, ret, overlapped,
                  started_uncached, calls_made, preceded >>

\* The same step of a thread whose call nothing else follows
BeginQuery(t) ==
  /\ IssueQuery(t)
  /\ UNCHANGED outside_cache

\* lines 271-290, one pass of the loop over the pages, and 299-303: the fetch
\* in progress returns the next page and its parameters are read into params,
\* or it raises, nothing is cached and params is returned as it stands; after
\* the last page the thread goes on to the insertion
ReadPage(t) ==
  /\ tpc[t] = "querying"
  /\ pages_read[t] < Len(listing[t])
  /\ IF fail_at[t] = pages_read[t] + 1
     THEN /\ tpc' = [tpc EXCEPT ![t] = after_query(fail_at[t])]
          /\ ret' = IF after_query(fail_at[t]) = "returned"
                    THEN [ret EXCEPT ![t] = params[t]] ELSE ret
          /\ UNCHANGED << params, pages_read >>
     ELSE /\ params' = [params EXCEPT ![t] = parse_params(@, listing[t][pages_read[t] + 1])]
          /\ pages_read' = [pages_read EXCEPT ![t] = @ + 1]
          /\ tpc' = [tpc EXCEPT
                       ![t] = IF pages_read[t] + 1 = Len(listing[t])
                              THEN after_query(0) ELSE @]
          /\ ret' = ret
  /\ UNCHANGED << shared_param_cache, cache_lock, call_name, listing, fail_at,
                  queried, overlapped, started_uncached, calls_made, paginate_calls,
                  preceded >>

\* The same step of a thread whose call nothing else follows
FetchPage(t) ==
  /\ ReadPage(t)
  /\ UNCHANGED outside_cache

\* line 293: with self._cache_lock
AcquireInsert(t) ==
  /\ tpc[t] = "lock_insert"
  /\ cache_lock = 0
  /\ cache_lock' = t
  /\ tpc' = [tpc EXCEPT ![t] = "insert"]
  /\ UNCHANGED outside_cache
  /\ UNCHANGED << shared_param_cache, call_name, params, listing, fail_at, pages_read, ret,
                  queried, overlapped, started_uncached, calls_made, paginate_calls,
                  preceded >>

\* line 296 without the re-check of line 295: the last writer wins
InsertOverwriting(cache, name, value) == (name :> value) @@ cache

\* lines 295-296 with the cache rebound to a new one-entry dict
InsertDroppingOthers(cache, name, value) ==
  IF name \notin DOMAIN cache THEN (name :> value) ELSE cache

\* lines 295-296: the entry a thread inserts when the name is still absent
InsertIfAbsent(cache, name, value) ==
  IF name \notin DOMAIN cache THEN (name :> value) @@ cache ELSE cache

\* lines 293-296 with the lock taken by hand and released only in the branch
\* that inserts
InsertReleasingOnlyOnInsert(t) ==
  /\ tpc[t] = "insert"
  /\ shared_param_cache' = InsertIfAbsent(shared_param_cache, call_name[t], params[t])
  /\ cache_lock' = IF call_name[t] \notin DOMAIN shared_param_cache THEN 0 ELSE cache_lock
  /\ ret' = [ret EXCEPT ![t] = params[t]]
  /\ tpc' = [tpc EXCEPT ![t] = "returned"]
  /\ UNCHANGED outside_cache
  /\ UNCHANGED << call_name, params, listing, fail_at, pages_read, queried, overlapped,
                  started_uncached, calls_made, paginate_calls, preceded >>

\* lines 295-303: re-check and insert under the lock, release it, and return
\* the thread's own params
Insert(t) ==
  /\ tpc[t] = "insert"
  /\ shared_param_cache' = InsertIfAbsent(shared_param_cache, call_name[t], params[t])
  /\ cache_lock' = 0
  /\ ret' = [ret EXCEPT ![t] = params[t]]
  /\ tpc' = [tpc EXCEPT ![t] = "returned"]
  /\ UNCHANGED outside_cache
  /\ UNCHANGED << call_name, params, listing, fail_at, pages_read, queried, overlapped,
                  started_uncached, calls_made, paginate_calls, preceded >>

\* What thread t does inside _get_parameter_group_params once it is called
LookupStep(t) ==
  \/ AcquireCheck(t)
  \/ Check(t)
  \/ BeginQuery(t)
  \/ FetchPage(t)
  \/ AcquireInsert(t)
  \/ Insert(t)

CacheSpecNext ==
  \/ \E t \in Threads : \E name \in ParamGroupNames : Call(t, name)
  \/ \E t \in Threads : AcquireCheck(t)
  \/ \E t \in Threads : Check(t)
  \/ \E t \in Threads : BeginQuery(t)
  \/ \E t \in Threads : FetchPage(t)
  \/ \E t \in Threads : AcquireInsert(t)
  \/ \E t \in Threads : Insert(t)

(***************************************************************************)
(* handle_aws_errors.wrapper, one call                                     *)
(***************************************************************************)

WrapperInit ==
  /\ w_pc = "idle"
  /\ w_site = CallSite("", "", FALSE, FALSE)
  /\ w_region = ""
  /\ w_attempt = 0
  /\ w_invocations = 0
  /\ w_api_outcomes = << >>
  /\ w_outcomes = << >>
  /\ w_sleeps = << >>
  /\ w_result = None

\* A method of a client of some region is called
WrapperCall(site, region) ==
  /\ w_pc = "idle"
  /\ w_site' = site
  /\ w_region' = region
  /\ w_pc' = "invoke"
  /\ UNCHANGED << w_attempt, w_invocations, w_api_outcomes, w_outcomes, w_sleeps,
                  w_result >>
  /\ UNCHANGED outside_wrapper

\* The methods that go through the shared parameter cache: the lookup itself
\* and the conversion that calls it (lines 504-505)
LookupSites == { "_get_parameter_group_params", "_convert_to_model" }

\* lines 45-81, and line 84 once the loop is exhausted: the invocation of func
\* has let out `out`, and the wrapper returns, retries or raises
Settle(out) ==
  /\ w_outcomes' = Append(w_outcomes, out)
  /\ w_invocations' = w_invocations + 1
  /\ IF ~w_site.wrapped \/ w_attempt >= max_retries
     THEN /\ w_pc' = IF out = Ok THEN "returned" ELSE "raised"
          /\ w_result' = out
     ELSE IF out = Ok
     THEN /\ w_pc' = "returned"
          /\ w_result' = Ok
     ELSE IF IsInstance(out, "ClientError") /\ retries(out, w_attempt)
     THEN /\ w_pc' = "sleeping"
          /\ w_result' = w_result
     ELSE /\ w_pc' = "raised"
          /\ w_result' = classify(out, w_site.func, w_region)

\* lines 43-81 around a listing method (lines 143-146, 192-195, 225-228): func
\* is invoked, its one provider call ends with e, and the wrapper settles
InvokeWith(e) ==
  /\ w_pc = "invoke"
  /\ w_site.func \notin LookupSites
  /\ w_api_outcomes' = Append(w_api_outcomes, e)
  /\ Settle(func_outcome(w_site, e))
  /\ UNCHANGED << w_site, w_region, w_attempt, w_sleeps >>
  /\ UNCHANGED outside_wrapper

\* The provider call ends in any of the ways it can
Invoke == \E e \in ProviderOutcomes : InvokeWith(e)

\* lines 53-58: the backoff, then the next iteration of the loop
Sleep ==
  /\ w_pc = "sleeping"
  /\ w_sleeps' = Append(w_sleeps, wait_time(w_attempt))
  /\ w_attempt' = w_attempt + 1
  /\ w_pc' = "invoke"
  /\ UNCHANGED << w_site, w_region, w_invocations, w_api_outcomes, w_outcomes,
                  w_result >>
  /\ UNCHANGED outside_wrapper

(***************************************************************************)
(* The parameter loop of _get_parameter_group_params, one parameter a step *)
(***************************************************************************)

\* lines 262-265
ParseInit ==
  /\ ps_params = DefaultParams
  /\ ps_prev = DefaultParams
  /\ ps_param = Param("", None)
  /\ ps_count = 0

\* lines 272-290: one iteration
ParseParam(param) ==
  /\ ps_count < MaxParams
  /\ ps_params' = parse_param(ps_params, param)
  /\ ps_prev' = ps_params
  /\ ps_param' = param
  /\ ps_count' = ps_count + 1
  /\ UNCHANGED outside_parse

ParseSpecNext == \E param \in ParamPool : ParseParam(param)

(***************************************************************************)
(* _convert_to_model on a replication group, step by step                  *)
(***************************************************************************)

\* line 380: a fresh ElastiCacheInfo (models.py defaults)
EmptyInfo ==
  [region |-> "", type |-> "", name |-> "", role |-> "", engine_version |-> "",
   cluster_mode |-> "", shards |-> 0, nodes |-> 0, multi_az |-> "",
   auto_failover |-> "", encryption_transit |-> "", encryption_rest |-> "",
   slow_logs |-> "", engine_logs |-> "", maintenance_window |-> "", backup |-> ""]

ConvertInit ==
  /\ cv_pc = "idle"
  /\ cv_rg = GroupRecord("", << >>, << >>, None, SettingsBare)
  /\ cv_region = ""
  /\ cv_map = EmptyMap
  /\ cv_detail = NoDetail
  /\ cv_detail_calls = 0
  /\ cv_lookups = << >>
  /\ cv_info = EmptyInfo

\* lines 380-396: region, role and name
ConvertCall(rg, map, region) ==
  /\ cv_pc = "idle"
  /\ cv_rg' = rg
  /\ cv_region' = region
  /\ cv_map' = map
  /\ LET base == convert_to_model(rg, map, region, TRUE)
     IN cv_info' = [cv_info EXCEPT !.region = base.region, !.name = base.name,
                                   !.role = base.role]
  /\ cv_pc' = "detail"
  /\ UNCHANGED << cv_detail, cv_detail_calls, cv_lookups >>
  /\ UNCHANGED outside_convert

\* lines 399-482: the detail of the first member cluster, when there is one,
\* and the fields that follow from it and from the group record
FetchDetail ==
  /\ cv_pc = "detail"
  /\ \E outcome \in IF cv_rg.MemberClusters # << >> THEN DetailOutcomes
                     ELSE { DetailFailure } :
       LET has_members == cv_rg.MemberClusters # << >>
           cluster_detail == IF outcome.failed THEN NoDetail ELSE outcome
       IN /\ cv_detail' = cluster_detail
          /\ cv_detail_calls' = IF has_members THEN cv_detail_calls + 1
                                ELSE cv_detail_calls
          /\ cv_info' =
               [f \in DOMAIN cv_info |->
                  CASE f = "type" -> type_of(has_members, outcome)
                    [] f = "engine_version" -> engine_version_of(cv_rg, cluster_detail)
                    [] f = "maintenance_window" ->
                         maintenance_window_of(cv_rg, cluster_detail)
                    [] f \in DOMAIN group_fields(cv_rg) -> group_fields(cv_rg)[f]
                    [] OTHER -> cv_info[f]]
  /\ cv_pc' = "slow_logs"
  /\ UNCHANGED << cv_rg, cv_region, cv_map, cv_lookups >>
  /\ UNCHANGED outside_convert

\* lines 484-503 and 514-521: whether delivery is on, and which name to look up
ResolveSlowLogs ==
  /\ cv_pc = "slow_logs"
  /\ LET param_group_name == param_group_name_of(cv_rg, cv_detail)
     IN IF ~slow_log_enabled(cv_rg.LogDeliveryConfigurations)
        THEN /\ cv_info' = [cv_info EXCEPT !.slow_logs = "Disabled"]
             /\ cv_lookups' = cv_lookups
             /\ cv_pc' = "done"
        ELSE IF param_group_name # None /\ param_group_name # ""
        THEN /\ cv_lookups' = Append(cv_lookups, param_group_name)
             /\ cv_info' = cv_info
             /\ cv_pc' = "lookup"
        ELSE /\ cv_info' = [cv_info EXCEPT
                              !.slow_logs = format_slow_logs(SomeInt(DefaultSlowerThan),
                                                             SomeInt(DefaultMaxLen))]
             /\ cv_lookups' = cv_lookups
             /\ cv_pc' = "done"
  /\ UNCHANGED << cv_rg, cv_region, cv_map, cv_detail, cv_detail_calls >>
  /\ UNCHANGED outside_convert

\* The thread that runs the conversions followed step by step
ConvertThread == CHOOSE t \in Threads : \A u \in Threads : t <= u

\* lines 504-505: the conversion calls _get_parameter_group_params(name)
ConvertLookupCall ==
  /\ cv_pc = "lookup"
  /\ tpc[ConvertThread] = "idle"
  /\ Call(ConvertThread, cv_lookups[Len(cv_lookups)])

\* lines 254-303 within that call: the check under the lock, the query page
\* by page with the lock free, the insertion under the lock
ConvertLookupStep ==
  /\ cv_pc = "lookup"
  /\ LookupStep(ConvertThread)

\* lines 504-510: _get_parameter_group_params has returned and the field is
\* formatted from what it returned
Lookup ==
  /\ cv_pc = "lookup"
  /\ tpc[ConvertThread] = "returned"
  /\ cv_info' = [cv_info EXCEPT
                   !.slow_logs = format_slow_logs(dict_get(ret[ConvertThread], SlowerThan),
                                                  dict_get(ret[ConvertThread], MaxLenKey))]
  /\ cv_pc' = "done"
  /\ UNCHANGED << cv_rg, cv_region, cv_map, cv_detail, cv_detail_calls, cv_lookups >>
  /\ UNCHANGED outside_convert

ConvertSpecNext ==
  \/ \E rg \in GroupRecords : \E map \in ConvertTopologies :
       \E region \in Regions : ConvertCall(rg, map, region)
  \/ FetchDetail
  \/ ResolveSlowLogs
  \/ ConvertLookupCall
  \/ ConvertLookupStep
  \/ Lookup

(***************************************************************************)
(* _convert_to_model on a standalone cluster                               *)
(***************************************************************************)

StandaloneInit ==
  /\ sc_pc = "idle"
  /\ sc_cluster = ClusterRecord("", None, NoneInt, None, None, RestBare)
  /\ sc_region = ""
  /\ sc_map = EmptyMap
  /\ sc_info = EmptyInfo

\* lines 380-381 and 523-572: the branch makes no provider call
ConvertStandalone(cluster, map, region) ==
  /\ sc_pc = "idle"
  /\ sc_cluster' = cluster
  /\ sc_region' = region
  /\ sc_map' = map
  /\ sc_info' = convert_to_model(cluster, map, region, FALSE) @@ cluster_fields(cluster)
  /\ sc_pc' = "done"
  /\ UNCHANGED outside_standalone

StandaloneSpecNext ==
  \E cluster \in ClusterRecords : \E map \in ConvertTopologies :
    \E region \in Regions : ConvertStandalone(cluster, map, region)

(***************************************************************************)
(* _query_single_region, step by step                                      *)
(***************************************************************************)

RegionInit ==
  /\ rq_pc = "idle"
  /\ rq_listing = RegionInventory(<< >>, << >>)
  /\ rq_region = ""
  /\ rq_engines = << >>
  /\ rq_filter = None
  /\ rq_map = EmptyMap
  /\ rq_groups = << >>
  /\ rq_clusters = << >>
  /\ rq_i = 0
  /\ rq_results = << >>
  /\ rq_skipped = << >>
  /\ rq_detail_calls = << >>
  /\ rq_lookups = << >>
  /\ rq_info = EmptyInfo
  /\ rq_exc = None

\* lines 326 and 344: which block comes next
wants_groups(engs) == InList("redis", engs) \/ InList("valkey", engs)

wants_clusters(engs) == InList("memcached", engs)

\* lines 323-326
RegionCall(lst, region, engs, filter, map) ==
  /\ rq_pc = "idle"
  /\ rq_listing' = lst
  /\ rq_region' = region
  /\ rq_engines' = engs
  /\ rq_filter' = filter
  /\ rq_map' = map
  /\ rq_results' = << >>
  /\ rq_pc' = IF wants_groups(engs) THEN "list_groups"
              ELSE IF wants_clusters(engs) THEN "list_clusters" ELSE "done"
  /\ UNCHANGED << rq_groups, rq_clusters, rq_i, rq_skipped, rq_detail_calls,
                  rq_lookups, rq_info, rq_exc >>
  /\ UNCHANGED outside_region

\* After the loop over the groups: the cluster block, or the return of line 360
after_groups(engs) == IF wants_clusters(engs) THEN "list_clusters" ELSE "done"

\* lines 327-328: _get_replication_groups returns, or raises out of the call
ListGroups ==
  /\ rq_pc = "list_groups"
  /\ \/ /\ rq_groups' = get_replication_groups(
                            rq_listing.ReplicationGroups,
                            SelectSeq(rq_engines, LAMBDA e : e \in { "redis", "valkey" }))
        /\ rq_i' = 1
        /\ rq_pc' = IF rq_groups' = << >> THEN after_groups(rq_engines) ELSE "groups"
        /\ rq_exc' = rq_exc
     \/ /\ rq_exc' = "AWSAPIError"
        /\ rq_pc' = "raised"
        /\ UNCHANGED << rq_groups, rq_i >>
  /\ UNCHANGED << rq_listing, rq_region, rq_engines, rq_filter, rq_map, rq_clusters,
                  rq_results, rq_skipped, rq_detail_calls, rq_lookups, rq_info >>
  /\ UNCHANGED outside_region

\* lines 484-492 and 514-517: the field when no lookup is made
slow_logs_without_lookup(rg) ==
  IF ~slow_log_enabled(rg.LogDeliveryConfigurations) THEN "Disabled"
  ELSE format_slow_logs(SomeInt(DefaultSlowerThan), SomeInt(DefaultMaxLen))

\* lines 494-503: delivery is on and the member detail names a parameter group
needs_lookup(rg, cluster_detail) ==
  /\ slow_log_enabled(rg.LogDeliveryConfigurations)
  /\ param_group_name_of(rg, cluster_detail) # None
  /\ param_group_name_of(rg, cluster_detail) # ""

\* Where the loop over the groups goes after the pass of group rq_i
after_pass == IF rq_i = Len(rq_groups) THEN after_groups(rq_engines) ELSE "groups"

\* lines 330-341 and 380-405: a pass of the loop over the groups begins: the
\* filter, then the conversion up to its detail call; a group without member
\* clusters is converted without any provider call
ConvertGroup ==
  /\ rq_pc = "groups"
  /\ LET rg == rq_groups[rq_i]
     IN IF ~PassesFilter(rq_filter, rg.ReplicationGroupId)
        THEN /\ rq_skipped' = Append(rq_skipped, rg.ReplicationGroupId)
             /\ rq_i' = rq_i + 1
             /\ rq_pc' = after_pass
             /\ UNCHANGED << rq_results, rq_detail_calls >>
        ELSE IF rg.MemberClusters # << >>
        THEN /\ rq_detail_calls' = Append(rq_detail_calls, rg.MemberClusters[1])
             /\ rq_pc' = "detail"
             /\ UNCHANGED << rq_results, rq_skipped, rq_i >>
        ELSE /\ rq_results' =
                  Append(rq_results,
                         [slow_logs |-> slow_logs_without_lookup(rg)]
                           @@ group_record(rg, rq_map, rq_region, DetailFailure))
             /\ rq_i' = rq_i + 1
             /\ rq_pc' = after_pass
             /\ UNCHANGED << rq_skipped, rq_detail_calls >>
  /\ UNCHANGED << rq_listing, rq_region, rq_engines, rq_filter, rq_map, rq_groups,
                  rq_clusters, rq_lookups, rq_info, rq_exc >>
  /\ UNCHANGED outside_region

\* lines 402-503: the detail call returns or fails (the failure is absorbed),
\* the fields that follow from it are set, and the conversion either goes on
\* to look the parameter group up or ends without a lookup
GroupDetail ==
  /\ rq_pc = "detail"
  /\ \E outcome \in { DetailFailure, member_detail(rq_groups[rq_i]) } :
       LET rg == rq_groups[rq_i]
           cluster_detail == IF outcome.failed THEN NoDetail ELSE outcome
           info == group_record(rg, rq_map, rq_region, outcome)
       IN IF needs_lookup(rg, cluster_detail)
          THEN /\ rq_info' = info
               /\ rq_lookups' = Append(rq_lookups, param_group_name_of(rg, cluster_detail))
               /\ rq_pc' = "lookup"
               /\ UNCHANGED << rq_results, rq_i >>
          ELSE /\ rq_results' =
                    Append(rq_results, [slow_logs |-> slow_logs_without_lookup(rg)] @@ info)
               /\ rq_i' = rq_i + 1
               /\ rq_pc' = after_pass
               /\ UNCHANGED << rq_info, rq_lookups >>
  /\ UNCHANGED << rq_listing, rq_region, rq_engines, rq_filter, rq_map, rq_groups,
                  rq_clusters, rq_skipped, rq_detail_calls, rq_exc >>
  /\ UNCHANGED outside_region

\* lines 504-505: the conversion calls _get_parameter_group_params(name)
GroupLookupCall ==
  /\ rq_pc = "lookup"
  /\ calls_made = Len(rq_lookups) - 1
  /\ Call(ConvertThread, rq_lookups[Len(rq_lookups)])

\* lines 254-303 within that call
GroupLookupStep ==
  /\ rq_pc = "lookup"
  /\ LookupStep(ConvertThread)

\* lines 504-510 and 340-341: the lookup has returned, the field is formatted
\* and the record is appended to the results
GroupLookup ==
  /\ rq_pc = "lookup"
  /\ calls_made = Len(rq_lookups)
  /\ tpc[ConvertThread] = "returned"
  /\ rq_results' =
       Append(rq_results,
              [slow_logs |-> format_slow_logs(dict_get(ret[ConvertThread], SlowerThan),
                                              dict_get(ret[ConvertThread], MaxLenKey))]
                @@ rq_info)
  /\ rq_i' = rq_i + 1
  /\ rq_pc' = after_pass
  /\ UNCHANGED << rq_listing, rq_region, rq_engines, rq_filter, rq_map, rq_groups,
                  rq_clusters, rq_skipped, rq_detail_calls, rq_lookups, rq_info, rq_exc >>
  /\ UNCHANGED outside_region

\* lines 344-345: _get_cache_clusters returns, or raises out of the call
ListClusters ==
  /\ rq_pc = "list_clusters"
  /\ \/ /\ rq_clusters' = get_cache_clusters(rq_listing.CacheClusters, << "memcached" >>)
        /\ rq_i' = 1
        /\ rq_pc' = IF rq_clusters' = << >> THEN "done" ELSE "clusters"
        /\ rq_exc' = rq_exc
     \/ /\ rq_exc' = "AWSConnectionError"
        /\ rq_pc' = "raised"
        /\ UNCHANGED << rq_clusters, rq_i >>
  /\ UNCHANGED << rq_listing, rq_region, rq_engines, rq_filter, rq_map, rq_groups,
                  rq_results, rq_skipped, rq_detail_calls, rq_lookups, rq_info >>
  /\ UNCHANGED outside_region

\* lines 347-357: one pass of the loop over the clusters
ConvertCluster ==
  /\ rq_pc = "clusters"
  /\ LET cluster == rq_clusters[rq_i]
     IN IF ~PassesFilter(rq_filter, cluster.CacheClusterId)
        THEN /\ rq_skipped' = Append(rq_skipped, cluster.CacheClusterId)
             /\ rq_results' = rq_results
        ELSE /\ rq_results' = Append(rq_results,
                                     cluster_record(cluster, rq_map, rq_region))
             /\ rq_skipped' = rq_skipped
  /\ rq_i' = rq_i + 1
  /\ rq_pc' = IF rq_i = Len(rq_clusters) THEN "done" ELSE "clusters"
  /\ UNCHANGED << rq_listing, rq_region, rq_engines, rq_filter, rq_map, rq_groups,
                  rq_clusters, rq_detail_calls, rq_lookups, rq_info, rq_exc >>
  /\ UNCHANGED outside_region

RegionSpecNext ==
  \/ \E lst \in RegionListings : \E region \in { "us-east-1", "ap-south-1" } :
       \E engs \in RegionEngineChoices : \E filter \in RegionFilterChoices :
         \E map \in ConvertTopologies : RegionCall(lst, region, engs, filter, map)
  \/ ListGroups
  \/ ConvertGroup
  \/ GroupDetail
  \/ GroupLookupCall
  \/ GroupLookupStep
  \/ GroupLookup
  \/ ListClusters
  \/ ConvertCluster

(***************************************************************************)
(* FieldFormatter.format_backup, one call at a time                        *)
(***************************************************************************)

\* The largest retention period a call is made with
MaxRetention == 35

\* SnapshotWindow as the provider gives it, empty, or missing
BackupWindows == { None, "", "00:00-01:00", "sun:05:00-sun:06:00" }

\* SnapshotRetentionLimit: missing, or an integer
BackupRetentions == { NoneInt } \cup { SomeInt(v) : v \in -1..MaxRetention }

\* The largest magnitude of the small parameter values a call is made with
MaxLogValue == 5

\* slowlog-log-slower-than and slowlog-max-len: missing, or an integer, small
\* ones of either sign and the values of the provider's defaults
LogValues ==
  { NoneInt } \cup { SomeInt(v) : v \in (-MaxLogValue..MaxLogValue) \cup { 128, 10000 } }

\* GlobalReplicationGroupId as the topology holds it: missing, empty or not
GlobalDsIds == { None, "", "gds-1", "gds-2" }

\* Local identifiers, those that already contain a "/" included
BareIds == { "rg-east", "rg-west", "prod-cache-1", "staging-cache-1", "mc-1", "", "a/b" }

ClusterIds ==
  BareIds \cup { g \o "/" \o id : g \in { "", "gds-1", "gds-2" }, id \in BareIds }

FormatInit ==
  /\ fb_pc = "idle"
  /\ fb_window = None
  /\ fb_retention = NoneInt
  /\ fb_out = ""
  /\ sl_pc = "idle"
  /\ sl_slower_than = NoneInt
  /\ sl_max_len = NoneInt
  /\ sl_out = ""
  /\ cn_pc = "idle"
  /\ cn_global_ds_id = None
  /\ cn_cluster_id = ""
  /\ cn_once = ""
  /\ cn_twice = ""

\* field_formatter.py lines 34-58
FormatBackup(window, retention_days) ==
  /\ fb_window' = window
  /\ fb_retention' = retention_days
  /\ fb_out' = format_backup(window, retention_days)
  /\ fb_pc' = "done"
  /\ UNCHANGED << outside_format, slow_log_vars, name_vars >>

\* field_formatter.py lines 13-32
FormatSlowLogs(slower_than, max_len) ==
  /\ sl_slower_than' = slower_than
  /\ sl_max_len' = max_len
  /\ sl_out' = format_slow_logs(slower_than, max_len)
  /\ sl_pc' = "done"
  /\ UNCHANGED << outside_format, backup_vars, name_vars >>

SlowLogsSpecNext ==
  \E slower_than \in LogValues : \E max_len \in LogValues :
    FormatSlowLogs(slower_than, max_len)

\* field_formatter.py lines 60-75, called on an id and then on what it returned
FormatClusterNameTwice(global_ds_id, cluster_id) ==
  /\ cn_global_ds_id' = global_ds_id
  /\ cn_cluster_id' = cluster_id
  /\ cn_once' = format_cluster_name(global_ds_id, cluster_id)
  /\ cn_twice' = format_cluster_name(global_ds_id, cn_once')
  /\ cn_pc' = "done"
  /\ UNCHANGED << outside_format, backup_vars, slow_log_vars >>

ClusterNameSpecNext ==
  \E global_ds_id \in GlobalDsIds : \E cluster_id \in ClusterIds :
    FormatClusterNameTwice(global_ds_id, cluster_id)

FormatSpecNext ==
  \E window \in BackupWindows : \E retention_days \in BackupRetentions :
    FormatBackup(window, retention_days)

(***************************************************************************)
(* The two listings behind handle_aws_errors, one page at a time           *)
(***************************************************************************)

\* What describe_replication_groups serves, page by page
GroupPages ==
  { << << Rg("rg-a", << 1 >>), Rg("rg-b", << >>) >>, << Rg("rg-c", << 2 >>) >> >>,
    << << Rg("rg-east", << 2 >>) >>, << >>, << Rg("rg-n", << 1, 1 >>) >> >> }

\* What describe_cache_clusters serves, page by page
ClusterPages ==
  { << << Cluster("mc-1", "memcached"), Cluster("rg-a-001", "redis") >>,
       << Cluster("staging-cache-1", "Memcached") >> >>,
    << << Cluster("prod-cache-1", "memcached") >> >> }

\* How the fetch of one page can end
PageOutcomes ==
  { Ok,
    ClientError("Throttling", "Rate exceeded"),
    ClientError("RequestLimitExceeded", "Request limit exceeded"),
    ClientError("AccessDenied", "not authorized") }

EnumInit ==
  /\ en_pc = "idle"
  /\ en_kind = "groups"
  /\ en_pages = << >>
  /\ en_filter = << >>
  /\ en_attempt = 0
  /\ en_i = 0
  /\ en_items = << >>
  /\ en_discarded = << >>
  /\ en_out = << >>

\* The name of the method called
enum_func(kind) ==
  IF kind = "groups" THEN "_get_replication_groups" ELSE "_get_cache_clusters"

\* lines 195-208 and 228-234: the items of one page the method keeps
kept_of_page(kind, page, engine_filter) ==
  IF kind = "groups" THEN get_replication_groups(page, engine_filter)
  ELSE get_cache_clusters(page, engine_filter)

\* All pages, one after the other
RECURSIVE Flatten(_, _)
Flatten(pages, i) == IF i > Len(pages) THEN << >> ELSE pages[i] \o Flatten(pages, i + 1)

\* The wrapped method is called (line 329 or 345)
EnumCall(kind, pages, engine_filter) ==
  /\ en_pc = "idle"
  /\ en_kind' = kind
  /\ en_pages' = pages
  /\ en_filter' = engine_filter
  /\ en_pc' = "invoke"
  /\ UNCHANGED << en_attempt, en_i, en_items, en_discarded, en_out >>
  /\ UNCHANGED outside_enum

\* lines 190 and 223 with the list kept in an attribute of the client that
\* outlives the invocation
new_list_kept(previous) == previous

\* lines 190 and 223: every invocation binds its local name to a new empty
\* list, whatever an earlier invocation had collected
new_list(previous) == << >>

\* line 45: func is invoked and runs up to the loop over the pages (lines
\* 190-193, 223-226): a new list and a new page iterator
EnumInvoke ==
  /\ en_pc = "invoke"
  /\ en_items' = new_list(en_items)
  /\ en_i' = 1
  /\ en_pc' = "paging"
  /\ UNCHANGED << en_kind, en_pages, en_filter, en_attempt, en_discarded, en_out >>
  /\ UNCHANGED outside_enum

\* lines 195-208, 228-234 and 46-74: the iterator fetches the next page; the
\* page's items are filtered into the list, or the fetch raises out of func
\* and the wrapper retries or raises
EnumPage(e) ==
  /\ en_pc = "paging"
  /\ en_i <= Len(en_pages)
  /\ IF e = Ok
     THEN /\ en_items' = en_items \o kept_of_page(en_kind, en_pages[en_i], en_filter)
          /\ en_i' = en_i + 1
          /\ UNCHANGED << en_pc, en_discarded, en_out >>
     ELSE IF retries(e, en_attempt)
     THEN /\ en_pc' = "sleeping"
          /\ en_discarded' = Append(en_discarded, en_items)
          /\ UNCHANGED << en_items, en_i, en_out >>
     ELSE /\ en_pc' = "raised"
          /\ en_out' = classify(e, enum_func(en_kind), "us-east-1").class
          /\ en_discarded' = Append(en_discarded, en_items)
          /\ UNCHANGED << en_items, en_i >>
  /\ UNCHANGED << en_kind, en_pages, en_filter, en_attempt >>
  /\ UNCHANGED outside_enum

\* lines 53-58: the backoff, then the next iteration of the wrapper's loop
EnumSleep ==
  /\ en_pc = "sleeping"
  /\ en_attempt' = en_attempt + 1
  /\ en_pc' = "invoke"
  /\ UNCHANGED << en_kind, en_pages, en_filter, en_i, en_items, en_discarded, en_out >>
  /\ UNCHANGED outside_enum

\* lines 210 and 237, then line 45: the pages are exhausted, the list is returned
EnumReturn ==
  /\ en_pc = "paging"
  /\ en_i > Len(en_pages)
  /\ en_out' = en_items
  /\ en_pc' = "returned"
  /\ UNCHANGED << en_kind, en_pages, en_filter, en_attempt, en_i, en_items, en_discarded >>
  /\ UNCHANGED outside_enum

EnumSpecNext ==
  \/ \E pages \in GroupPages : \E engine_filter \in { << "redis" >>, << "valkey", "redis" >> } :
       EnumCall("groups", pages, engine_filter)
  \/ \E pages \in ClusterPages : EnumCall("clusters", pages, << "memcached" >>)
  \/ EnumInvoke
  \/ \E e \in PageOutcomes : EnumPage(e)
  \/ EnumSleep
  \/ EnumReturn

(***************************************************************************)
(* Specifications                                                          *)
(***************************************************************************)

\* The fan-out of one get_elasticache_info run; the parameter cache is at rest
Init ==
  /\ OrchInit
  /\ CacheInit
  /\ WrapperInit
  /\ ParseInit
  /\ ConvertInit
  /\ StandaloneInit
  /\ RegionInit
  /\ FormatInit
  /\ EnumInit

Spec == Init /\ [][Next]_vars

\* Threads of regional tasks resolving parameter groups through the shared cache
OrchAtRest ==
  /\ pc = "Init"
  /\ self_region = "us-east-1"
  /\ engines = << "redis" >>
  /\ cluster_filter = None
  /\ gds_pages = << >>
  /\ gds_fail_at = 0
  /\ inventory = InventoryEastWest
  /\ global_ds_map = EmptyMap
  /\ regions_to_query = {}
  /\ futures = << >>
  /\ completed = << >>
  /\ all_results = << >>
  /\ returned = << >>
  /\ ClientInit

CacheSpecInit ==
  /\ CacheInit
  /\ OrchAtRest
  /\ WrapperInit
  /\ ParseInit
  /\ ConvertInit
  /\ StandaloneInit
  /\ RegionInit
  /\ FormatInit
  /\ EnumInit

CacheSpec == CacheSpecInit /\ [][CacheSpecNext]_vars

(***************************************************************************)
(* handle_aws_errors around the methods that reach the shared cache: the   *)
(* invocation of func is followed call by call                             *)
(***************************************************************************)

\* The names a conversion can pass to _get_parameter_group_params (lines
\* 494-505): those the member details give to groups with slow-log delivery
ConvertLookupNames ==
  { param_group_name_of(x[1], x[2]) :
      x \in { y \in GroupRecords \X DetailOutcomes : needs_lookup(y[1], y[2]) } }

\* lines 403-405 at the site _convert_to_model: the detail call of the group's
\* first member cluster ends, with a record or with a failure (lines 408-409)
InvokeDetail ==
  /\ w_pc = "invoke"
  /\ w_site.func = "_convert_to_model"
  /\ w_api_outcomes = << >>
  /\ tpc[ConvertThread] = "idle"
  /\ \E e \in ProviderOutcomes : w_api_outcomes' = << e >>
  /\ UNCHANGED << w_pc, w_site, w_region, w_attempt, w_invocations, w_outcomes,
                  w_sleeps, w_result >>
  /\ UNCHANGED outside_wrapper

\* line 240 entered: as the call itself (site _get_parameter_group_params), or
\* from the conversion whose detail call returned a record that names a
\* parameter group, delivery being on (lines 494-505)
InvokeLookupCall ==
  /\ w_pc = "invoke"
  /\ tpc[ConvertThread] = "idle"
  /\ \/ /\ w_site.func = "_get_parameter_group_params"
        /\ \E name \in ParamGroupNames : Call(ConvertThread, name)
     \/ /\ w_site.func = "_convert_to_model"
        /\ w_api_outcomes = << Ok >>
        /\ \E name \in ConvertLookupNames : Call(ConvertThread, name)

\* lines 254-269 and 293-296 within the invocation: the check under the lock,
\* the query issued, the insertion under the lock
InvokeLookupStep ==
  /\ w_pc = "invoke"
  /\ w_site.func \in LookupSites
  /\ \/ AcquireCheck(ConvertThread)
     \/ Check(ConvertThread)
     \/ BeginQuery(ConvertThread)
     \/ AcquireInsert(ConvertThread)
     \/ Insert(ConvertThread)

\* lines 271-290 and 299-300 within the invocation: a page of the query is
\* fetched; describe_cache_parameters ends with Ok once its last page is
\* read, and with the error of the fetch that raises
InvokeFetchPage ==
  /\ w_pc = "invoke"
  /\ w_site.func \in LookupSites
  /\ ReadPage(ConvertThread)
  /\ IF fail_at[ConvertThread] = pages_read[ConvertThread] + 1
     THEN \E e \in ProviderErrors : w_api_outcomes' = Append(w_api_outcomes, e)
     ELSE IF pages_read[ConvertThread] + 1 = Len(listing[ConvertThread])
     THEN w_api_outcomes' = Append(w_api_outcomes, Ok)
     ELSE w_api_outcomes' = w_api_outcomes
  /\ UNCHANGED << w_pc, w_site, w_region, w_attempt, w_invocations, w_outcomes,
                  w_sleeps, w_result >>
  /\ UNCHANGED << orch_vars, parse_vars, convert_vars, standalone_vars, region_vars,
                  format_vars, enum_vars >>

\* lines 257 and 303, 558, then line 45: func returns and the wrapper settles.
\* _get_parameter_group_params returns once the lookup has; the conversion
\* returns after the lookup, or without one: a group with no member cluster
\* makes no provider call (line 411), and a failed detail, a detail without
\* a parameter group and a group without slow-log delivery lead to no lookup
InvokeReturns ==
  /\ w_pc = "invoke"
  /\ w_site.func \in LookupSites
  /\ \/ tpc[ConvertThread] = "returned"
     \/ w_site.func = "_convert_to_model" /\ tpc[ConvertThread] = "idle"
  /\ Settle(Ok)
  /\ UNCHANGED << w_site, w_region, w_attempt, w_api_outcomes, w_sleeps >>
  /\ UNCHANGED outside_wrapper

WrapperSpecNext ==
  \/ \E site \in CallSites : \E region \in Regions : WrapperCall(site, region)
  \/ Invoke
  \/ Sleep
  \/ InvokeDetail
  \/ InvokeLookupCall
  \/ InvokeLookupStep
  \/ InvokeFetchPage
  \/ InvokeReturns

\* What the shared cache holds when the call is made: nothing, or the entry
\* an earlier lookup of custom-pg left in it
CachesBefore ==
  { EmptyMap, ("custom-pg" :> parse_param_pages(DefaultParams, ListingCustom)) }

\* One provider call of a client, through the wrapper where the code has one
WrapperSpecInit ==
  /\ WrapperInit
  /\ OrchAtRest
  /\ shared_param_cache \in CachesBefore
  /\ CacheAtRest
  /\ ParseInit
  /\ ConvertInit
  /\ StandaloneInit
  /\ RegionInit
  /\ FormatInit
  /\ EnumInit

WrapperSpec == WrapperSpecInit /\ [][WrapperSpecNext]_vars

\* The parameters of a listing, parsed one after the other
ParseSpecInit ==
  /\ ParseInit
  /\ OrchAtRest
  /\ CacheInit
  /\ WrapperInit
  /\ ConvertInit
  /\ StandaloneInit
  /\ RegionInit
  /\ FormatInit
  /\ EnumInit

ParseSpec == ParseSpecInit /\ [][ParseSpecNext]_vars

\* One replication group converted to a record
ConvertSpecInit ==
  /\ ConvertInit
  /\ OrchAtRest
  /\ CacheInit
  /\ WrapperInit
  /\ ParseInit
  /\ StandaloneInit
  /\ RegionInit
  /\ FormatInit
  /\ EnumInit

ConvertSpec == ConvertSpecInit /\ [][ConvertSpecNext]_vars

\* One standalone cluster converted to a record
StandaloneSpecInit ==
  /\ StandaloneInit
  /\ OrchAtRest
  /\ CacheInit
  /\ WrapperInit
  /\ ParseInit
  /\ ConvertInit
  /\ RegionInit
  /\ FormatInit
  /\ EnumInit

\* One regional query over what the provider lists in the region
RegionSpecInit ==
  /\ RegionInit
  /\ OrchAtRest
  /\ CacheInit
  /\ WrapperInit
  /\ ParseInit
  /\ ConvertInit
  /\ StandaloneInit
  /\ FormatInit
  /\ EnumInit

\* Calls of format_backup over the windows and the retention periods
FormatSpecInit ==
  /\ FormatInit
  /\ EnumInit
  /\ OrchAtRest
  /\ CacheInit
  /\ WrapperInit
  /\ ParseInit
  /\ ConvertInit
  /\ StandaloneInit
  /\ RegionInit

FormatSpec == FormatSpecInit /\ [][FormatSpecNext]_vars

\* Calls of format_slow_logs over the parameter values
SlowLogsSpec == FormatSpecInit /\ [][SlowLogsSpecNext]_vars

\* Calls of format_cluster_name over the identifiers
ClusterNameSpec == FormatSpecInit /\ [][ClusterNameSpecNext]_vars

\* Listings retried by handle_aws_errors
EnumSpec == FormatSpecInit /\ [][EnumSpecNext]_vars

RegionSpec == RegionSpecInit /\ [][RegionSpecNext]_vars

StandaloneSpec == StandaloneSpecInit /\ [][StandaloneSpecNext]_vars

\* One run of get_elasticache_info followed to its end, with what its regional
\* tasks do in between: worker thread t runs the task of futures[t]; the
\* listing of replication groups of one task is followed through the retry
\* wrapper and decides how that task goes on, and a thread that converts
\* the groups of its region asks for the detail of each group's first member
\* and looks the parameter group it names up through the shared cache

\* A replication group as the listing gives it when it has member clusters
\* and delivers its slow log
GroupWithMembers(id, member) ==
  [ReplicationGroupId |-> id, NodeGroups |-> << 2 >>,
   MemberClusters |-> << member >>, LogDeliveryConfigurations |-> SlowLogDelivery]

\* The two members of gds-1, each with one member cluster and slow-log
\* delivery
InventoryLive ==
  [r \in Regions |->
     CASE r = "us-east-1" ->
            RegionInventory(<< GroupWithMembers("rg-east", "rg-east-001") >>, << >>)
       [] r = "us-west-2" ->
            RegionInventory(<< GroupWithMembers("rg-west", "rg-west-001") >>, << >>)
       [] OTHER -> RegionInventory(<< >>, << >>)]

\* How the detail call of a task ends in the run followed: it raises, or it
\* returns a detail without a parameter group, or one that names custom-pg,
\* the parameter group the groups of both regions use
LiveDetails ==
  { d \in DetailOutcomes : d.CacheParameterGroupName \in { None, "custom-pg" } }

LiveOrchInit ==
  /\ pc = "Init"
  /\ self_region = "us-east-1"
  /\ engines = << "redis", "memcached" >>
  /\ cluster_filter = None
  /\ gds_pages = << PageEastWest >>
  /\ gds_fail_at \in { 0, 1 }
  /\ inventory = InventoryLive
  /\ global_ds_map = EmptyMap
  /\ regions_to_query = {}
  /\ futures = << >>
  /\ completed = << >>
  /\ all_results = << >>
  /\ returned = << >>
  /\ ClientInit

LiveInit ==
  /\ LiveOrchInit
  /\ CacheInit
  /\ WrapperInit
  /\ ParseInit
  /\ ConvertInit
  /\ StandaloneInit
  /\ RegionInit
  /\ FormatInit
  /\ EnumInit

\* The task of futures[t] is running on thread t
TaskPending(t) == t \in 1..Len(futures) /\ futures[t].state = "pending"

\* The listing of replication groups of task t is the call followed through
\* handle_aws_errors
Followed(t) ==
  /\ task_at[t] = "in_groups"
  /\ w_pc # "idle"
  /\ w_region = futures[t].region

\* line 329, through lines 39-45 down to the paginator: the task calls
\* _get_replication_groups on its client, the wrapper invokes it and the
\* provider call is entered
TaskListing(t, site) ==
  /\ TaskPending(t)
  /\ task_at[t] = "created"
  /\ w_pc = "idle"
  /\ site.func = "_get_replication_groups"
  /\ next_listing(futures[t].engines, task_at[t]) = site.api
  /\ api_calls' = api_calls \cup { ApiCall(task_client(t), site.api, t) }
  /\ task_at' = [task_at EXCEPT ![t] = "in_groups"]
  /\ w_site' = site
  /\ w_region' = clients[task_client(t)]
  /\ w_pc' = "invoke"
  /\ UNCHANGED << w_attempt, w_invocations, w_api_outcomes, w_outcomes, w_sleeps,
                  w_result >>
  /\ UNCHANGED << pc, world_vars, global_ds_map, regions_to_query, futures, completed,
                  all_results, returned, clients, task_conv >>
  /\ UNCHANGED << cache_vars, parse_vars, convert_vars, standalone_vars, region_vars,
                  format_vars, enum_vars >>

\* The class of what the wrapper raised: one of the AWS*Error classes of
\* lines 63-81, or the class of an exception it let through
raised_class(result) ==
  IF "class" \in DOMAIN result THEN result.class ELSE result.type

\* lines 329-341 and 601-603: the followed listing is over. What the wrapper
\* returned is converted and the task goes on; what it raised leaves
\* _query_single_region and _query_region_wrapper and ends the task's future
FollowedCallEnds(t) ==
  /\ TaskPending(t)
  /\ Followed(t)
  /\ w_pc \in { "returned", "raised" }
  /\ TaskCallEndsWith(t, IF w_pc = "returned" THEN NoFault
                         ELSE [at |-> "replication_groups",
                               exc |-> raised_class(w_result)])

\* The group whose conversion task t is in
group_of(t) == groups_of(t)[task_conv[t].i]

\* What the orchestration leaves alone while a task converts a group
ConversionFrame ==
  UNCHANGED << pc, world_vars, regions_to_query, futures, completed, all_results,
               returned, clients >>

\* lines 399-405: the group has member clusters, and the task asks its own
\* client for the detail of the first one, outside handle_aws_errors
TaskDetail(t) ==
  /\ TaskPending(t)
  /\ task_at[t] = "converting"
  /\ api_calls' = api_calls \cup { ApiCall(task_client(t), "describe_cache_clusters", t) }
  /\ task_at' = [task_at EXCEPT ![t] = "in_detail"]
  /\ ConversionFrame
  /\ UNCHANGED << global_ds_map, task_conv >>
  /\ UNCHANGED outside_orch

\* lines 404-410 and 418-503: the detail call returns a record or raises, and
\* the exception is caught. When slow-log delivery is on and the detail names
\* a parameter group the conversion stands before the lookup of line 505;
\* otherwise it is over and the loop goes on up to the next provider call
TaskDetailEnds(t) ==
  /\ TaskPending(t)
  /\ task_at[t] = "in_detail"
  /\ \E rg \in { group_of(t) } : \E cluster_detail \in LiveDetails :
       IF needs_lookup(rg, cluster_detail)
       THEN /\ task_at' = [task_at EXCEPT ![t] = "lookup"]
            /\ task_conv' = [task_conv EXCEPT ![t].detail = cluster_detail]
            /\ global_ds_map' = global_ds_map
       ELSE ConvertUpToCall(t, task_conv[t].i + 1)
  /\ ConversionFrame
  /\ api_calls' = api_calls
  /\ UNCHANGED outside_orch

\* lines 503-505: the task of thread t calls _get_parameter_group_params
\* with the name its member detail gave
TaskLookup(t) ==
  /\ TaskPending(t)
  /\ task_at[t] = "lookup"
  /\ \E rg \in { group_of(t) } :
       /\ needs_lookup(rg, task_conv[t].detail)
       /\ \E name \in { param_group_name_of(rg, task_conv[t].detail) } : Calls(t, name)
  /\ task_at' = [task_at EXCEPT ![t] = "in_lookup"]
  /\ ConversionFrame
  /\ UNCHANGED << global_ds_map, api_calls, task_conv >>
  /\ UNCHANGED << wrapper_vars, parse_vars, convert_vars, standalone_vars, region_vars,
                  format_vars, enum_vars >>

\* lines 262-269, inside the lookup of a task: the parameter listing is
\* asked of the task's own client
TaskQuery(t) ==
  /\ TaskPending(t)
  /\ task_at[t] = "in_lookup"
  /\ IssueQuery(t)
  /\ api_calls' = api_calls \cup { ApiCall(task_client(t), "describe_cache_parameters", t) }
  /\ ConversionFrame
  /\ UNCHANGED << global_ds_map, task_at, task_conv >>
  /\ UNCHANGED << wrapper_vars, parse_vars, convert_vars, standalone_vars, region_vars,
                  format_vars, enum_vars >>

\* What thread t does inside the lookup its task made
TaskLookupStep(t) ==
  \/ AcquireCheck(t)
  \/ Check(t)
  \/ TaskQuery(t)
  \/ FetchPage(t)
  \/ AcquireInsert(t)
  \/ Insert(t)

\* lines 505-510, 572 and 340-341: the lookup has returned, the record is
\* complete and the loop goes on up to the next provider call
TaskLookupReturns(t) ==
  /\ TaskPending(t)
  /\ task_at[t] = "in_lookup"
  /\ tpc[t] = "returned"
  /\ ConvertUpToCall(t, task_conv[t].i + 1)
  /\ ConversionFrame
  /\ api_calls' = api_calls
  /\ UNCHANGED outside_orch

\* A step of the conversion loop of task t
TaskConvert(t) ==
  \/ TaskDetail(t)
  \/ TaskDetailEnds(t)
  \/ TaskLookup(t)
  \/ TaskLookupStep(t)
  \/ TaskLookupReturns(t)

\* The task of thread t takes a step of its own, outside a lookup and
\* outside the followed listing
TaskEnd(t) ==
  /\ TaskPending(t)
  /\ ~InCall(t)
  /\ ~Followed(t)
  /\ TaskStep(t)

\* The steps of get_elasticache_info itself
MainStep ==
  \/ Start
  \/ ResolveTopology
  \/ Submit
  \/ \E f \in 1..Len(futures) : Collect(f)
  \/ Return

\* How the provider answers the listing followed step by step: success, a
\* rate limit (retried), a refusal and a connection failure (both raised)
LiveOutcomes ==
  { Ok,
    ClientError("Throttling", "Rate exceeded"),
    ClientError("AccessDenied", "not authorized"),
    BotoError("EndpointConnectionError") }

\* The listing call in progress makes its provider call
ListingStep == \E e \in LiveOutcomes : InvokeWith(e)

LiveNext ==
  \/ MainStep
  \/ \E t \in Threads : \E site \in CallSites : TaskListing(t, site)
  \/ ListingStep
  \/ Sleep
  \/ \E t \in Threads : TaskDetail(t)
  \/ \E t \in Threads : TaskDetailEnds(t)
  \/ \E t \in Threads : TaskLookup(t)
  \/ \E t \in Threads : TaskLookupStep(t)
  \/ \E t \in Threads : TaskLookupReturns(t)
  \/ \E t \in Threads : TaskEnd(t)
  \/ \E t \in Threads : FollowedCallEnds(t)

\* The main thread and every worker thread keep running, and every provider
\* call in progress returns or fails: each step that stays possible is taken
LiveFairness ==
  /\ WF_vars(MainStep)
  /\ \A t \in Threads : WF_vars(TaskConvert(t) \/ TaskEnd(t) \/ FollowedCallEnds(t))
  /\ WF_vars(ListingStep \/ Sleep)

LiveSpec == LiveInit /\ [][LiveNext]_vars /\ LiveFairness

(***************************************************************************)
(* Properties of the region fan-out (checked under Spec)                   *)
(***************************************************************************)

Range(list) == { list[i] : i \in 1..Len(list) }

Occurrences(x, list) == Cardinality({ i \in 1..Len(list) : list[i] = x })

RecordsOfRegion(list, region) == SelectSeq(list, LAMBDA rec : rec.region = region)

SortedByRegion(list) ==
  \A i, j \in 1..Len(list) : i < j => ~StrLess(list[j].region, list[i].region)

\* C1: when the task of a region raises and the task of another region
\* succeeds, no exception leaves get_elasticache_info and the returned list
\* holds every record of each task that succeeded, as often as the task
\* produced it, no record of a region whose task raised, no other record,
\* and is sorted by region.
C1_FailedRegionIsExcluded ==
  /\ pc # "Raised"
  /\ pc = "Done" =>
       /\ \A f \in 1..Len(futures) :
            \A rec \in Range(futures[f].results)
                       \cup Range(RecordsOfRegion(returned, futures[f].region)) :
              Occurrences(rec, returned)
                = (IF futures[f].state = "finished"
                   THEN Occurrences(rec, futures[f].results) ELSE 0)
       /\ \A rec \in Range(returned) :
            \E f \in 1..Len(futures) : futures[f].region = rec.region
       /\ SortedByRegion(returned)

\* A run that ended with one task raised, with an exception of a class the
\* except clause does not name, and another returning records
C1_Witness ==
  /\ pc = "Done"
  /\ \E a, b \in 1..Len(futures) :
       /\ futures[a].state = "raised"
       /\ futures[a].exc = "KeyError"
       /\ futures[b].state = "finished"
       /\ futures[b].results # << >>
       /\ RecordsOfRegion(returned, futures[b].region) = futures[b].results

\* The records of the tasks that finished, region after region in ascending
\* order of region: a function of the tasks' outcomes alone
RECURSIVE ConcatResults(_)
ConcatResults(fs) ==
  IF fs = << >> THEN << >>
  ELSE (IF Head(fs).state = "finished" THEN Head(fs).results ELSE << >>)
       \o ConcatResults(Tail(fs))

FutureOfRegion(region) ==
  futures[CHOOSE f \in 1..Len(futures) : futures[f].region = region]

OutcomeDetermined ==
  LET order == sorted({ futures[f].region : f \in 1..Len(futures) })
  IN ConcatResults([i \in 1..Len(order) |-> FutureOfRegion(order[i])])

\* C4: the returned list is determined by the topology and the outcome of each
\* regional task: it is the same whatever the order in which the tasks complete.
C4_CompletionOrderIrrelevant ==
  pc = "Done" => returned = OutcomeDetermined

\* A run whose tasks completed in an order other than that of submission, two
\* of them with records
C4_Witness ==
  /\ pc = "Done"
  /\ \E i \in 1..Len(completed) : completed[i] # i
  /\ \E a, b \in 1..Len(futures) :
       /\ a < b
       /\ futures[a].results # << >>
       /\ futures[b].results # << >>
       /\ \E i, j \in 1..Len(completed) : i < j /\ completed[i] = b /\ completed[j] = a

\* C5: the returned list is in ascending lexicographic order of region, and the
\* records of one region stand in the order in which the task of that region
\* produced them.
C5_SortedByRegionStable ==
  pc = "Done" =>
    /\ \A i \in 1..(Len(returned) - 1) :
         returned[i].region = returned[i + 1].region
         \/ StrLess(returned[i].region, returned[i + 1].region)
    /\ \A f \in 1..Len(futures) :
         futures[f].state = "finished" =>
           RecordsOfRegion(returned, futures[f].region) = futures[f].results

\* A run returning records of two regions, one of them with several records,
\* collected in an order that was not sorted
C5_Witness ==
  /\ pc = "Done"
  /\ \E i, j \in 1..Len(returned) : returned[i].region # returned[j].region
  /\ \E f \in 1..Len(futures) : Len(futures[f].results) >= 2
  /\ completed[1] # 1
  /\ futures[completed[1]].results # << >>

\* C6: the regions for which a task is submitted are the home region and the
\* keys of the resolved TopologyMap, one task for each.
C6_OneTaskPerRegion ==
  /\ \A f, g \in 1..Len(futures) : f # g => futures[f].region # futures[g].region
  /\ { futures[f].region : f \in 1..Len(futures) }
       \subseteq { self_region } \cup DOMAIN global_ds_map
  /\ pc \in { "Collecting", "Done" } =>
       { futures[f].region : f \in 1..Len(futures) }
         = { self_region } \cup DOMAIN global_ds_map

\* All tasks are submitted, and the home region is also a key of the topology
C6_Witness ==
  /\ pc = "Collecting"
  /\ self_region \in DOMAIN global_ds_map
  /\ Len(futures) >= 2

\* C7: with an empty resolved topology exactly one regional task is submitted,
\* for the home region, with the requested engines, the filter and the empty
\* map, and every returned record has the home region and an empty role.
C7_EmptyTopologySingleRegion ==
  (pc \in { "Collecting", "Done" } /\ global_ds_map = EmptyMap) =>
    /\ Len(futures) = 1
    /\ futures[1].region = self_region
    /\ futures[1].engines = engines
    /\ futures[1].cluster_filter = cluster_filter
    /\ futures[1].global_ds_map = EmptyMap
    /\ pc = "Done" =>
         \A i \in 1..Len(returned) :
           returned[i].region = self_region /\ returned[i].role = ""

\* A run with a filter over an empty topology that returned replicated groups
C7_Witness ==
  /\ pc = "Done"
  /\ global_ds_map = EmptyMap
  /\ cluster_filter # None
  /\ \E i \in 1..Len(returned) : returned[i].name \in { "rg-east", "prod-cache-1" }

\* C23: every record carries the region passed to the conversion, which is the
\* region of the task that produced it, and so every returned record has a
\* region of the queried set.
C23_RegionIsWhereFound ==
  /\ \A f \in 1..Len(futures) :
       \A rec \in Range(futures[f].results) : rec.region = futures[f].region
  /\ pc = "Done" => \A rec \in Range(returned) : rec.region \in regions_to_query

\* A run from one home region that returned a record found by the task of
\* another region
C23_Witness ==
  /\ pc = "Done"
  /\ \E i \in 1..Len(returned) :
       /\ returned[i].region # self_region
       /\ returned[i].region \in regions_to_query
       /\ \E f \in 1..Len(futures) :
            futures[f].region = returned[i].region /\ InList(returned[i], futures[f].results)

\* The scenario: gds-1 with primary rg-east in us-east-1 and secondary rg-west
\* in us-west-2, queried from us-east-1 for redis, both regions answering
EastWestScenario ==
  /\ gds_pages = << PageEastWest >>
  /\ gds_fail_at = 0
  /\ inventory = InventoryEastWest
  /\ self_region = "us-east-1"
  /\ engines = << "redis" >>
  /\ cluster_filter = None
  /\ pc = "Done"
  /\ \A f \in 1..Len(futures) : futures[f].state = "finished"

\* C8: in that scenario exactly two records are returned: gds-1/rg-east, Primary,
\* us-east-1, followed by gds-1/rg-west, Secondary, us-west-2.
C8_EastWestEndToEnd ==
  EastWestScenario =>
    returned = << [region |-> "us-east-1", name |-> "gds-1/rg-east", role |-> "Primary"],
                  [region |-> "us-west-2", name |-> "gds-1/rg-west", role |-> "Secondary"] >>

\* The scenario has run to its end, the task of us-west-2 completing first
C8_Witness ==
  /\ EastWestScenario
  /\ Len(futures) = 2
  /\ completed = << 2, 1 >>

TopologyResolved == pc \notin { "Init", "ResolvingTopology" }

\* C9: when the global-construct listing fails, on whichever page,
\* _get_global_datastores returns an empty TopologyMap.
C9_EmptyMapOnFailure ==
  (TopologyResolved /\ gds_fail_at # 0) => global_ds_map = EmptyMap

\* The members of the listing that carry a region, a local id and a role, each
\* with the id of its construct
EnrolledMembers ==
  UNION { UNION { { << gds_pages[p][d].GlobalReplicationGroupId,
                       gds_pages[p][d].Members[m] >> :
                      m \in { k \in 1..Len(gds_pages[p][d].Members) :
                                /\ gds_pages[p][d].Members[k].ReplicationGroupId # ""
                                /\ gds_pages[p][d].Members[k].ReplicationGroupRegion # ""
                                /\ gds_pages[p][d].Members[k].Role # "" } }
                  : d \in 1..Len(gds_pages[p]) }
          : p \in 1..Len(gds_pages) }

UpperCased(role) ==
  CASE role \in { "PRIMARY", "primary" } -> "PRIMARY"
    [] role \in { "SECONDARY", "Secondary" } -> "SECONDARY"

\* C10: when the listing succeeds, the TopologyMap holds for every such member
\* the entry map[region][local id] = {construct id, upper-cased role}, its keys
\* are the members' regions, and it holds nothing else.
C10_TopologyMapIsTheEnrollment ==
  (TopologyResolved /\ gds_fail_at = 0) =>
    /\ DOMAIN global_ds_map = { e[2].ReplicationGroupRegion : e \in EnrolledMembers }
    /\ \A region \in DOMAIN global_ds_map :
         DOMAIN global_ds_map[region]
           = { e[2].ReplicationGroupId :
                 e \in { x \in EnrolledMembers : x[2].ReplicationGroupRegion = region } }
    /\ \A e \in EnrolledMembers :
         global_ds_map[e[2].ReplicationGroupRegion][e[2].ReplicationGroupId]
           = [global_datastore_id |-> e[1], role |-> UpperCased(e[2].Role)]

\* A two-page listing with roles in other spellings and a member without role
C10_Witness ==
  /\ TopologyResolved
  /\ gds_fail_at = 0
  /\ gds_pages = << PageEastWest, PageMixedCase >>
  /\ global_ds_map["ap-south-1"]["rg-a"].role = "PRIMARY"
  /\ "prod-cache-1" \notin DOMAIN global_ds_map["us-east-1"]

(***************************************************************************)
(* Properties of the parameter cache (checked under CacheSpec)             *)
(***************************************************************************)

\* Two threads whose current or last calls ran concurrently, for the same name,
\* which was absent from the cache when each call began
ConcurrentUncached(t1, t2) ==
  /\ t1 # t2
  /\ t2 \in overlapped[t1]
  /\ call_name[t1] = call_name[t2]
  /\ started_uncached[t1]
  /\ started_uncached[t2]

\* C2: of the concurrent calls for one name that is not yet cached, only one
\* executes the describe_cache_parameters query.
C2_QueriedOnce ==
  \A t1, t2 \in Threads :
    ConcurrentUncached(t1, t2) => ~(queried[t1] /\ queried[t2])

\* C3: concurrent calls for one initially uncached name all return the same
\* values, whatever the outcome of each caller's query.
C3_SameValues ==
  \A t1, t2 \in Threads :
    (ConcurrentUncached(t1, t2) /\ tpc[t1] = "returned" /\ tpc[t2] = "returned")
      => ret[t1] = ret[t2]

\* The calls of two threads of which the first returned before the second began
ReturnedBefore(u, t) == u # t /\ u \in preceded[t]

\* The last call of u issued the query and every page of it was served
QueryCompleted(u) == tpc[u] = "returned" /\ queried[u] /\ fail_at[u] = 0

\* The last call of u issued the query and a page fetch raised
QueryFailed(u) == tpc[u] = "returned" /\ queried[u] /\ fail_at[u] # 0

\* C14: once a call for a name has returned after a successful query, a later
\* call for that name, from any client, issues no query and returns the values
\* that call returned.
C14_LaterCallsHit ==
  \A t, u \in Threads :
    (ReturnedBefore(u, t) /\ QueryCompleted(u) /\ tpc[t] = "returned"
       /\ call_name[t] = call_name[u])
      => (~queried[t] /\ ret[t] = ret[u])

\* What a complete listing of a name resolves to
ValuesOf(name) == { parse_param_pages(DefaultParams, l) : l \in ParamListings(name) }

\* C15: names are cached independently: an entry never changes once present,
\* an entry for a name appears only through the insertion of a call for that
\* name that issued its own query, a call returns without a query only when its
\* own name is cached, and what a call returns after a complete query or a hit
\* is what a listing of its own name resolves to.
C15_NamesIndependent ==
  [][ /\ \A n \in ParamGroupNames :
           /\ n \in DOMAIN shared_param_cache
                => (n \in DOMAIN shared_param_cache'
                      /\ shared_param_cache'[n] = shared_param_cache[n])
           /\ (n \notin DOMAIN shared_param_cache /\ n \in DOMAIN shared_param_cache')
                => (paginate_calls[n] >= 1
                      /\ \E t \in Threads :
                           tpc[t] = "insert" /\ call_name[t] = n /\ queried[t])
      /\ \A t \in Threads :
           (tpc[t] # "returned" /\ tpc'[t] = "returned")
             => /\ ~queried[t]
                     => (call_name[t] \in DOMAIN shared_param_cache
                           /\ ret'[t] = shared_param_cache[call_name[t]])
                /\ (~queried[t] \/ fail_at[t] = 0) => ret'[t] \in ValuesOf(call_name[t])
    ]_vars

\* Both names are cached, each by its own query, and a call has been served
\* from the cache
C15_Witness ==
  /\ DOMAIN shared_param_cache = ParamGroupNames
  /\ \A n \in ParamGroupNames : paginate_calls[n] = 1
  /\ \E t \in Threads : tpc[t] = "returned" /\ ~queried[t]

\* C16: a call whose parameter listing fails leaves the shared cache as it was:
\* the cache changes only by the insertion of a call whose listing was served
\* completely, and a call that finds no entry for its name issues a query.
C16_FailureCachesNothing ==
  [][ /\ shared_param_cache' # shared_param_cache
           => \E u \in Threads :
                /\ tpc[u] = "insert" /\ queried[u] /\ fail_at[u] = 0
                /\ call_name[u] \notin DOMAIN shared_param_cache
                /\ shared_param_cache' = (call_name[u] :> params[u]) @@ shared_param_cache
      /\ \A t \in Threads :
           (tpc[t] = "querying" /\ fail_at[t] # 0 /\ tpc'[t] # "querying")
             => (tpc'[t] = "returned" /\ shared_param_cache' = shared_param_cache)
      /\ \A t \in Threads :
           (tpc'[t] = "returned" /\ ~queried'[t])
             => call_name'[t] \in DOMAIN shared_param_cache'
    ]_vars

\* A listing failed after a page had been parsed, nothing is cached for the
\* name, and the next call for the name has issued a query of its own
C16_Witness ==
  \E t, u \in Threads :
    /\ QueryFailed(t)
    /\ fail_at[t] >= 2
    /\ ReturnedBefore(t, u)
    /\ call_name[u] = call_name[t]
    /\ queried[u]
    /\ paginate_calls[call_name[t]] = 2
    /\ call_name[t] \notin DOMAIN shared_param_cache

\* C17: a call whose parameter listing fails, at whatever page, returns exactly
\* the baseline values 10000 and 128.
C17_BaselineOnFailure ==
  \A t \in Threads : QueryFailed(t) => ret[t] = DefaultParams

(***************************************************************************)
(* Properties of the parameter loop (checked under ParseSpec)              *)
(***************************************************************************)

\* What Python's int() gives for the values of the pool that it accepts
PythonInt ==
  ("0" :> 0) @@ ("5000" :> 5000) @@ ("256" :> 256) @@ ("-1" :> (0 - 1))
    @@ (" 42 " :> 42) @@ ("+7" :> 7) @@ ("1_000" :> 1000)

\* C18: a slow-log parameter whose value is present, non-empty and an integer
\* literal ("0" included) sets its own entry to that integer and leaves the
\* other entry alone; an absent, empty or unparseable value, or a parameter of
\* another name, leaves both entries as they were.
C18_ParseRule ==
  ps_count > 0 =>
    LET name == ps_param.ParameterName
        value == ps_param.ParameterValue
    IN IF name \in { SlowerThan, MaxLenKey } /\ value \in DOMAIN PythonInt
       THEN /\ ps_params[name] = PythonInt[value]
            /\ \A k \in { SlowerThan, MaxLenKey } \ { name } : ps_params[k] = ps_prev[k]
       ELSE ps_params = ps_prev

\* "0" replaces an earlier parsed threshold and the other entry keeps its default
C18_Witness ==
  /\ ps_count = 2
  /\ ps_param = Param(SlowerThan, "0")
  /\ ps_prev[SlowerThan] = 5000
  /\ ps_params[SlowerThan] = 0
  /\ ps_params[MaxLenKey] = DefaultMaxLen

(***************************************************************************)
(* Properties of the slow-log field (checked under ConvertSpec)            *)
(***************************************************************************)

\* The group's log-delivery list has a slow-log entry with a destination
DeliveryActive(rg) ==
  \E i \in 1..Len(rg.LogDeliveryConfigurations) :
    LET cfg == rg.LogDeliveryConfigurations[i]
    IN cfg.LogType = "slow-log" /\ DOMAIN cfg.DestinationDetails # {}

\* C19: for a group without an active slow-log delivery entry, no parameter
\* lookup is ever made, and the finished record's slow-log field is "Disabled".
C19_DisabledWithoutLookup ==
  (cv_pc # "idle" /\ ~DeliveryActive(cv_rg))
    => (cv_lookups = << >> /\ cv_pc # "lookup"
          /\ (cv_pc = "done" => cv_info.slow_logs = "Disabled"))

\* A group that delivers engine logs only, whose member's parameter group is
\* known, converted with no lookup
C19_Witness ==
  /\ cv_pc = "done"
  /\ cv_rg.LogDeliveryConfigurations = << LogConfig("engine-log", CloudWatchDest) >>
  /\ cv_detail # NoDetail
  /\ cv_detail.CacheParameterGroupName = "default.redis7"
  /\ cv_info.slow_logs = "Disabled"
  /\ cv_lookups = << >>

\* The name the slow-log lookup is to use: the member detail's when the detail
\* is there and has one, else the group-level record's
EffectiveParamGroup(rg, detail) ==
  IF ~detail.failed /\ detail.CacheParameterGroupName \notin { None, "" }
  THEN detail.CacheParameterGroupName
  ELSE rg.CacheParameterGroupName

\* C20: for a group with slow-log delivery active, the name looked up is the
\* member detail's parameter-group name when available and otherwise the
\* group-level one; the defaults 10000/128 are used only when neither gives a
\* name.
C20_DetailThenGroupName ==
  (cv_pc = "done" /\ DeliveryActive(cv_rg))
    => IF EffectiveParamGroup(cv_rg, cv_detail) \notin { None, "" }
       THEN cv_lookups = << EffectiveParamGroup(cv_rg, cv_detail) >>
       ELSE cv_lookups = << >> /\ cv_info.slow_logs = "Enabled/10000/128"

\* C21: when the detail fetch of a group's first member fails, the conversion
\* goes on: the type is "Redis" and the engine version and the maintenance
\* window are the group record's own; when the fetch succeeds, the type, the
\* version and the window are the detail record's.
C21_DetailOrGroupFallback ==
  (cv_pc \in { "slow_logs", "lookup", "done" } /\ cv_rg.MemberClusters # << >>)
    => /\ cv_detail_calls = 1
       /\ IF cv_detail = NoDetail
          THEN /\ cv_info.type = "Redis"
               /\ cv_info.engine_version =
                    (IF cv_rg.EngineVersion = None THEN "" ELSE cv_rg.EngineVersion)
               /\ cv_info.maintenance_window =
                    (IF cv_rg.PreferredMaintenanceWindow \in { None, "" } THEN ""
                     ELSE cv_rg.PreferredMaintenanceWindow \o " UTC")
          ELSE /\ cv_info.type =
                    (IF cv_detail.Engine = None THEN "Redis"
                     ELSE Capitalize(cv_detail.Engine))
               /\ cv_info.engine_version =
                    (IF cv_detail.EngineVersion = None THEN ""
                     ELSE cv_detail.EngineVersion)
               /\ cv_info.maintenance_window =
                    (IF cv_detail.PreferredMaintenanceWindow \in { None, "" } THEN ""
                     ELSE cv_detail.PreferredMaintenanceWindow \o " UTC")

\* A finished record of a group with a member whose detail fetch failed: the
\* group's own version and window are in the record
C21_Witness ==
  /\ cv_pc = "done"
  /\ cv_rg.MemberClusters = << "rg-a-001" >>
  /\ cv_detail_calls = 1
  /\ cv_detail = NoDetail
  /\ cv_rg.EngineVersion = "6.2"
  /\ cv_info.type = "Redis"
  /\ cv_info.engine_version = "6.2"
  /\ cv_info.maintenance_window = "sun:05:00-sun:06:00 UTC"

\* The entry of the map for a local id under a region, if there is one
HasEntry(map, region, id) == region \in DOMAIN map /\ id \in DOMAIN map[region]

\* C22: a group with local id X converted under region R has role "Primary"
\* (resp. "Secondary") exactly when the map has an entry for X under R with
\* role PRIMARY (resp. SECONDARY), and role "" otherwise; its name is
\* "construct/X" exactly when that entry carries a construct id, else X.  An
\* entry for X under another region changes nothing.
C22_RoleAndNameFromOwnRegion ==
  cv_pc # "idle" =>
    LET X == cv_rg.ReplicationGroupId
        has == HasEntry(cv_map, cv_region, X)
        construct == IF has THEN cv_map[cv_region][X].global_datastore_id ELSE ""
    IN /\ (cv_info.role = "Primary") <=> (has /\ cv_map[cv_region][X].role = "PRIMARY")
       /\ (cv_info.role = "Secondary") <=> (has /\ cv_map[cv_region][X].role = "SECONDARY")
       /\ cv_info.role \in { "Primary", "Secondary", "" }
       /\ cv_info.name = (IF construct # "" THEN construct \o "/" \o X ELSE X)

\* rg-east, primary of gds-1 in us-east-1, converted as a group found in
\* us-west-2: no role, bare name
C22_Witness ==
  /\ cv_pc = "done"
  /\ cv_rg.ReplicationGroupId = "rg-east"
  /\ cv_region = "us-west-2"
  /\ HasEntry(cv_map, "us-east-1", "rg-east")
  /\ ~HasEntry(cv_map, "us-west-2", "rg-east")
  /\ cv_info.role = ""
  /\ cv_info.name = "rg-east"

(***************************************************************************)
(* Properties of the standalone branch (checked under StandaloneSpec)      *)
(***************************************************************************)

\* C24: a record of the standalone branch has role "", cluster mode "N/A",
\* shard count 0, the cluster's node count, multi-AZ "Disabled" when a
\* preferred availability zone is set and "N/A" otherwise, and "N/A" in
\* auto-failover, both encryption fields, both log fields and backup,
\* whatever the topology map and the other keys of the raw record.
C24_StandaloneFields ==
  sc_pc = "done" =>
    /\ sc_info.role = ""
    /\ sc_info.cluster_mode = "N/A"
    /\ sc_info.shards = 0
    /\ sc_info.nodes = (IF sc_cluster.NumCacheNodes.is_none THEN 0
                        ELSE sc_cluster.NumCacheNodes.value)
    /\ sc_info.multi_az = (IF sc_cluster.PreferredAvailabilityZone \in { None, "" }
                           THEN "N/A" ELSE "Disabled")
    /\ \A f \in { "auto_failover", "encryption_transit", "encryption_rest",
                  "slow_logs", "engine_logs", "backup" } : sc_info[f] = "N/A"

\* A cluster whose id is enrolled under its region in the map, with three
\* nodes, an availability zone, snapshots, encryption and log delivery set
C24_Witness ==
  /\ sc_pc = "done"
  /\ HasEntry(sc_map, sc_region, sc_cluster.CacheClusterId)
  /\ sc_cluster.SnapshotRetentionLimit = SomeInt(7)
  /\ sc_cluster.TransitEncryptionEnabled = SomeBool(TRUE)
  /\ sc_cluster.LogDeliveryConfigurations # << >>
  /\ sc_cluster.NumCacheNodes = SomeInt(3)
  /\ sc_cluster.PreferredAvailabilityZone = "us-east-1a"
  /\ sc_info.nodes = 3
  /\ sc_info.multi_az = "Disabled"
  /\ sc_info.backup = "N/A"
  /\ sc_info.role = ""

(***************************************************************************)
(* Properties of handle_aws_errors (checked under WrapperSpec)             *)
(***************************************************************************)

Throttled(e) == e.type = "ClientError" /\ e.code \in { "Throttling", "RequestLimitExceeded" }

Finished == w_pc \in { "returned", "raised" }

\* The waits the backoff prescribes: 1s x 2^0, then 1s x 2^1
PrescribedWaits == << 1, 2 >>

\* C11: a wrapped operation is invoked at most 3 times; a rate-limit failure on
\* attempt 0 or 1 is followed by a wait of 1s x 2^attempt and another
\* invocation; the first success is returned with no further invocation; three
\* rate-limit failures end the call with an error, no third wait and no fourth
\* invocation.
C11_RetryWithBackoff ==
  LET n == Len(w_outcomes)
  IN w_site.wrapped =>
       /\ w_invocations = n
       /\ n <= 3
       /\ Len(w_sleeps) <= 2
       /\ w_sleeps = SubSeq(PrescribedWaits, 1, Len(w_sleeps))
       /\ \A i \in 1..n : i < n => Throttled(w_outcomes[i])
       /\ \A i \in 1..n :
            (i <= 2 /\ Throttled(w_outcomes[i]))
              => IF i = n
                 THEN \/ w_pc = "sleeping" /\ Len(w_sleeps) = i - 1
                      \/ w_pc = "invoke" /\ Len(w_sleeps) = i
                 ELSE Len(w_sleeps) >= i /\ w_sleeps[i] = retry_delay * (2 ^ (i - 1))
       /\ w_pc = "returned" => (w_outcomes[n] = Ok /\ w_result = Ok)
       /\ (n >= 1 /\ w_outcomes[n] = Ok) => w_pc = "returned"
       /\ (n = 3 /\ \A i \in 1..3 : Throttled(w_outcomes[i]))
            => (w_pc = "raised" /\ w_sleeps = PrescribedWaits
                  /\ w_result.class = "AWSAPIError")

\* Three rate-limit failures in a row of an operation whose failures reach the
\* wrapper
C11_Witness ==
  /\ w_site.wrapped
  /\ w_pc = "raised"
  /\ Len(w_outcomes) = 3
  /\ \A i \in 1..3 : Throttled(w_outcomes[i])
  /\ w_sleeps = << 1, 2 >>

\* C12: a failure of a wrapped operation that is not a rate-limit failure ends
\* the call at once, raising AWSPermissionError(operation) for an authorization
\* denial, AWSInvalidParameterError for a malformed parameter,
\* AWSCredentialsError for missing credentials, AWSConnectionError(region) for
\* a transport failure and AWSAPIError(operation, code, message) for any other
\* API failure, each carrying the original error.
C12_Classification ==
  LET n == Len(w_outcomes)
  IN w_site.wrapped =>
       \A i \in 1..n :
         LET e == w_outcomes[i]
         IN (e # Ok /\ ~Throttled(e)) =>
              /\ i = n
              /\ w_pc = "raised"
              /\ e.type \in { "ClientError", "NoCredentialsError", "EndpointConnectionError" }
                   => w_result.original_error = e
              /\ (e.type = "ClientError" /\ e.code \in { "AccessDenied", "UnauthorizedOperation" })
                   => (w_result.class = "AWSPermissionError"
                         /\ w_result.operation = w_site.func)
              /\ (e.type = "ClientError" /\ e.code = "InvalidParameterValue")
                   => w_result.class = "AWSInvalidParameterError"
              /\ e.type = "NoCredentialsError"
                   => w_result.class = "AWSCredentialsError"
              /\ e.type = "EndpointConnectionError"
                   => (w_result.class = "AWSConnectionError" /\ w_result.region = w_region)
              /\ (e.type = "ClientError" /\ e.code = "ServiceUnavailable")
                   => (w_result.class = "AWSAPIError"
                         /\ w_result.operation = w_site.func
                         /\ w_result.error_code = e.code
                         /\ w_result.error_message = e.message)
              /\ (e.type = "ClientError" /\ e.code = None)
                   => (w_result.class = "AWSAPIError" /\ w_result.operation = w_site.func)

\* Missing credentials on the attempt that follows a rate-limit failure
C12_Witness ==
  /\ w_site.wrapped
  /\ w_pc = "raised"
  /\ Len(w_outcomes) = 2
  /\ Throttled(w_outcomes[1])
  /\ w_outcomes[2].type = "NoCredentialsError"
  /\ w_result.class = "AWSCredentialsError"

\* C13: whichever provider call the client makes, a rate-limit failure of the
\* call is followed by the backoff wait and a second call before the failure
\* is handled.
C13_EveryCallRetried ==
  (Finished /\ w_api_outcomes # << >> /\ Throttled(w_api_outcomes[1]))
    => (Len(w_api_outcomes) >= 2 /\ Len(w_sleeps) >= 1 /\ w_sleeps[1] = 1)

(***************************************************************************)
(* Properties of _query_single_region (checked under RegionSpec)           *)
(***************************************************************************)

\* C25: the enumeration of replicated groups returns only groups whose engine
\* is among the requested ones: with valkey requested and redis not, no Redis
\* group is returned and no record of type "Redis" is produced, and likewise
\* with redis requested and valkey not.
C25_OnlyRequestedFamilies ==
  /\ \A i \in 1..Len(rq_groups) : InList(rq_groups[i].Engine, rq_engines)
  /\ (InList("valkey", rq_engines) /\ ~InList("redis", rq_engines))
       => \A rec \in Range(rq_results) : rec.type # "Redis"
  /\ (InList("redis", rq_engines) /\ ~InList("valkey", rq_engines))
       => \A rec \in Range(rq_results) : rec.type # "Valkey"

\* The records of replicated groups among the results, in order
GroupResults == SelectSeq(rq_results, LAMBDA rec : rec.cluster_mode # "N/A")

\* The name a group's record is to carry under the map of the call
NameOf(rg) ==
  LET id == rg.ReplicationGroupId
      construct == IF HasEntry(rq_map, rq_region, id)
                   THEN rq_map[rq_region][id].global_datastore_id ELSE ""
  IN IF construct # "" THEN construct \o "/" \o id ELSE id

\* C26: with redis or valkey requested and no name filter, every group of the
\* provider's listing yields exactly one record of the region's result,
\* whether or not the group carries node groups or member clusters; a group
\* without node groups yields a record with shard count 0.
C26_EveryListedGroupYieldsARecord ==
  (rq_pc = "done" /\ wants_groups(rq_engines) /\ rq_filter = None) =>
    LET listed == rq_listing.ReplicationGroups
    IN /\ Len(GroupResults) = Len(listed)
       /\ \A i \in 1..Len(listed) :
            /\ GroupResults[i].name = NameOf(listed[i])
            /\ GroupResults[i].shards = Len(listed[i].NodeGroups)

\* The records of standalone clusters among the results, in order
ClusterResults == SelectSeq(rq_results, LAMBDA rec : rec.cluster_mode = "N/A")

Names(records) == [i \in 1..Len(records) |-> records[i].name]

\* C27: with a name filter, a group or cluster that the listing operation
\* returned yields a record exactly when the wildcard pattern matches its
\* local identifier (not the composed name): "prod-*" keeps prod-cache-1 and
\* drops staging-cache-1; and neither a detail call nor a parameter lookup is
\* made for a group the filter drops.
C27_FilterOnLocalId ==
  (rq_filter # None /\ rq_filter # "") =>
    /\ rq_pc = "done" =>
         /\ Names(GroupResults)
              = Names([i \in 1..Len(SelectSeq(rq_groups,
                                              LAMBDA rg : match_wildcard(rq_filter,
                                                            rg.ReplicationGroupId))) |->
                         [name |-> NameOf(SelectSeq(rq_groups,
                                            LAMBDA rg : match_wildcard(rq_filter,
                                                          rg.ReplicationGroupId))[i])]])
         /\ Names(ClusterResults)
              = Names([i \in 1..Len(SelectSeq(rq_clusters,
                                              LAMBDA c : match_wildcard(rq_filter,
                                                           c.CacheClusterId))) |->
                         [name |-> SelectSeq(rq_clusters,
                                     LAMBDA c : match_wildcard(rq_filter,
                                                  c.CacheClusterId))[i].CacheClusterId]])
         /\ rq_filter = "prod-*" =>
              /\ \A rec \in Range(rq_results) :
                   rec.name = "prod-cache-1" /\ rec.name # "staging-cache-1"
              /\ Len(GroupResults)
                   = Len(SelectSeq(rq_groups,
                                   LAMBDA rg : rg.ReplicationGroupId = "prod-cache-1"))
    /\ \A c \in Range(rq_detail_calls) :
         \E i \in 1..Len(rq_groups) :
           /\ rq_groups[i].MemberClusters # << >>
           /\ rq_groups[i].MemberClusters[1] = c
           /\ match_wildcard(rq_filter, rq_groups[i].ReplicationGroupId)
    /\ Len(rq_detail_calls)
         <= Len(GroupResults) + (IF rq_pc \in { "detail", "lookup" } THEN 1 ELSE 0)
    /\ Len(rq_lookups) <= Len(GroupResults) + (IF rq_pc = "lookup" THEN 1 ELSE 0)

\* Filter "rg-*" over the mixed listing in us-east-1: the enrolled group
\* rg-east is kept under its composed name gds-1/rg-east, which the pattern
\* does not match, and prod-cache-1 is dropped with no call made for it
C27_Witness ==
  /\ rq_pc = "done"
  /\ rq_filter = "rg-*"
  /\ InList("gds-1/rg-east", Names(GroupResults))
  /\ ~match_wildcard("rg-*", "gds-1/rg-east")
  /\ InList("prod-cache-1", rq_skipped)
  /\ ~InList("prod-cache-1-001", rq_detail_calls)
  /\ InList("rg-east-001", rq_detail_calls)
  /\ rq_lookups # << >>

(***************************************************************************)
(* Termination of a run (checked under LiveSpec)                           *)
(***************************************************************************)

\* C28: provided every provider call returns or fails, every run reaches Done,
\* whatever the topology listing, the regional tasks, the retried calls and
\* the threads contending for the parameter cache do; no task stays inside a
\* lookup, waiting for the lock or otherwise, and no retried call goes on
\* for ever.
C28_RunTerminates ==
  /\ <>(pc = "Done")
  /\ \A t \in Threads : [](InCall(t) => <>(~InCall(t)))
  /\ [](w_pc \in { "invoke", "sleeping" } => <>(w_pc \in { "returned", "raised" }))

\* A finished run in which both tasks looked a parameter group up, one of them
\* waited for the lock the other held, the listing was retried after a rate
\* limit, and one task raised
C28_Witness ==
  /\ pc = "Done"
  /\ \A t \in 1..2 : tpc[t] = "returned"
  /\ \E t \in 1..2 : overlapped[t] # {}
  /\ w_sleeps # << >>
  /\ \E f \in 1..Len(futures) : futures[f].state = "raised"
  /\ \E f \in 1..Len(futures) : futures[f].state = "finished"

(***************************************************************************)
(* All or nothing per region (checked under Spec)                          *)
(***************************************************************************)

\* What the enumeration of the region of task f yields when nothing fails
FullEnumeration(f) ==
  query_single_region(futures[f].region, futures[f].engines, futures[f].cluster_filter,
                      futures[f].global_ds_map, inventory[futures[f].region],
                      NoFault).results

\* C29: per-region results are all-or-nothing: in the list returned, the
\* records of a region are either every record its enumeration yields, when
\* its task succeeded, or none at all, when a hard error was raised anywhere
\* in the enumeration, the failure of the cache-cluster listing after the
\* replication groups were converted included.
C29_AllOrNothingPerRegion ==
  pc = "Done" =>
    \A f \in 1..Len(futures) :
      /\ futures[f].state \in { "finished", "raised" }
      /\ RecordsOfRegion(returned, futures[f].region)
           = (IF futures[f].state = "finished" THEN FullEnumeration(f) ELSE << >>)

\* A finished run where the cache-cluster listing of a region failed after
\* replication groups of that region had been listed and converted, and
\* another region contributed records of both kinds
C29_Witness ==
  /\ pc = "Done"
  /\ \E a, b \in 1..Len(futures) :
       /\ futures[a].state = "raised"
       /\ futures[a].exc = "AWSConnectionError"
       /\ \E rec \in Range(FullEnumeration(a)) : rec.role # ""
       /\ RecordsOfRegion(returned, futures[a].region) = << >>
       /\ futures[b].state = "finished"
       /\ Len(FullEnumeration(b)) >= 2
       /\ RecordsOfRegion(returned, futures[b].region) = FullEnumeration(b)

(***************************************************************************)
(* Properties of format_backup (checked under FormatSpec)                  *)
(***************************************************************************)

\* The three cases of format_backup on which the label plays no part
FormatBackupCommonCases ==
  /\ fb_retention.is_none => fb_out = "N/A"
  /\ (~fb_retention.is_none /\ fb_retention.value = 0) => fb_out = "Disabled"
  /\ (~fb_retention.is_none /\ fb_retention.value > 0 /\ fb_window # None) =>
       fb_out = fb_window \o " UTC/" \o ToString(fb_retention.value) \o " days"

EnabledWithoutWindow ==
  ~fb_retention.is_none /\ fb_retention.value > 0 /\ fb_window = None

\* C30: format_backup returns "N/A" when retention is absent,
\* "Disabled" when retention is 0 whatever the window, "{window} UTC/{retention}
\* days" when retention > 0 and the window is present, and "Enabled/{retention}
\* days (no window info)" when retention > 0 and the window is absent.
C30_FormatBackupAsStated ==
  fb_pc = "done" =>
    /\ FormatBackupCommonCases
    /\ EnabledWithoutWindow =>
         fb_out = "Enabled/" \o ToString(fb_retention.value) \o " days (no window info)"

(***************************************************************************)
(* Properties of format_slow_logs (checked under SlowLogsSpec)             *)
(***************************************************************************)

\* C31: format_slow_logs returns "Disabled" whenever either argument is absent
\* or the threshold is not positive, and otherwise "Enabled/{threshold}/
\* {max_entries}" with both integers as they are, a max_entries that is zero
\* or negative included.
C31_FormatSlowLogs ==
  sl_pc = "done" =>
    IF sl_slower_than.is_none \/ sl_max_len.is_none \/ sl_slower_than.value <= 0
    THEN sl_out = "Disabled"
    ELSE sl_out = "Enabled/" \o ToString(sl_slower_than.value) \o "/"
                    \o ToString(sl_max_len.value)

\* The call format_slow_logs(1, -1) has returned
C31_Witness ==
  /\ sl_pc = "done"
  /\ sl_slower_than = SomeInt(1)
  /\ sl_max_len = SomeInt(-1)
  /\ sl_out = "Enabled/1/-1"

(***************************************************************************)
(* Properties of format_cluster_name (checked under ClusterNameSpec)       *)
(***************************************************************************)

\* C32 as stated: format_cluster_name is idempotent under re-application with
\* the construct id held fixed, whether the id is absent, empty or non-empty:
\* applying it to its own result gives that result again.
C32_Idempotent == cn_pc = "done" => cn_twice = cn_once

\* C32, amended: format_cluster_name is idempotent under re-application when
\* the construct id held fixed is absent or empty: the result is the local id,
\* and applying it again gives the local id again.  With a non-empty construct
\* id the second application prefixes the id once more.
C32_IdempotentWithoutConstruct ==
  cn_pc = "done" =>
    IF cn_global_ds_id = None \/ cn_global_ds_id = ""
    THEN cn_once = cn_cluster_id /\ cn_twice = cn_once
    ELSE /\ cn_once = cn_global_ds_id \o "/" \o cn_cluster_id
         /\ cn_twice = cn_global_ds_id \o "/" \o cn_once
         /\ cn_twice # cn_once

\* format_cluster_name("", "rg-east") was applied twice
C32_Witness ==
  /\ cn_pc = "done"
  /\ cn_global_ds_id = ""
  /\ cn_cluster_id = "rg-east"
  /\ cn_once = "rg-east"
  /\ cn_twice = "rg-east"

(***************************************************************************)
(* The cache lock (checked under CacheSpec)                                *)
(***************************************************************************)

\* C33: no thread holds the parameter-cache lock while its
\* describe_cache_parameters query is in progress: a thread holds the lock
\* exactly while it is in the initial check or in the final re-check and
\* insert, and a call that returned, by a hit, after an insertion or after a
\* failed query, holds nothing.
C33_LockOnlyAroundCheckAndInsert ==
  /\ cache_lock \in { 0 } \cup Threads
  /\ \A t \in Threads :
       /\ cache_lock = t <=> tpc[t] \in { "check", "insert" }
       /\ tpc[t] \in { "miss", "querying" } => cache_lock # t

\* The query of one thread is in progress while another thread, called for
\* the same name, holds the lock for its insertion
C33_Witness ==
  \E t, u \in Threads :
    /\ t # u
    /\ tpc[t] = "querying"
    /\ cache_lock = u
    /\ tpc[u] = "insert"
    /\ call_name[u] = call_name[t]

(***************************************************************************)
(* The phases of get_elasticache_info (checked under Spec)                 *)
(***************************************************************************)

\* The order of the phases
PhaseOrder ==
  { << "Init", "ResolvingTopology" >>, << "ResolvingTopology", "Dispatching" >>,
    << "Dispatching", "Collecting" >>, << "Collecting", "Done" >> }

\* C34: the orchestrator goes Init, ResolvingTopology, Dispatching, Collecting,
\* Done, skipping and repeating nothing: the map is set by the one step that
\* ends ResolvingTopology and by no other, no task exists before that step,
\* every task is given that map, and the list is sorted and returned only
\* when every submitted task, one per region, has finished or raised and has
\* been collected.
C34_PhasesInOrder ==
  [][ /\ pc' # pc => << pc, pc' >> \in PhaseOrder
      /\ global_ds_map' # global_ds_map =>
           (pc = "ResolvingTopology" /\ pc' = "Dispatching")
      /\ pc' \in { "Init", "ResolvingTopology" } => futures' = << >>
      /\ \A f \in 1..Len(futures') : futures'[f].global_ds_map = global_ds_map'
      /\ Len(futures') > Len(futures) => (pc = "Dispatching" /\ Len(futures') = Len(futures) + 1)
      /\ \A f \in 1..Len(futures') :
           futures'[f].state # "pending" => pc' \in { "Dispatching", "Collecting", "Done" }
      /\ returned' # returned => (pc = "Collecting" /\ pc' = "Done")
      /\ pc' = "Done" =>
           /\ Len(futures') = Cardinality(regions_to_query')
           /\ Len(completed') = Len(futures')
           /\ \A f \in 1..Len(futures') :
                futures'[f].state \in { "finished", "raised" } /\ InList(f, completed')
    ]_vars

\* A finished run over two regions with a resolved map, one task raised and
\* records returned
C34_Witness ==
  /\ pc = "Done"
  /\ global_ds_map # EmptyMap
  /\ Len(futures) >= 2
  /\ \E f \in 1..Len(futures) : futures[f].state = "raised"
  /\ returned # << >>

(***************************************************************************)
(* The client instances (checked under LiveSpec)                           *)
(***************************************************************************)

\* C35: every provider call of a regional task, the task of the home region
\* included, goes through an instance that the task created and that is bound
\* to the task's region; the caller's own instance makes the topology listing
\* and nothing else, and no instance is used by two tasks. The calls are the
\* topology listing, the listings of groups and clusters, the member-detail
\* call of each conversion and the parameter listing of each cache miss.
C35_OwnClientPerTask ==
  /\ \A c \in api_calls :
       /\ c.client \in DOMAIN clients
       /\ c.task = 0 => c.client = 0
       /\ c.client = 0 => (c.task = 0 /\ c.op = "describe_global_replication_groups")
       /\ c.task # 0 =>
            /\ c.task \in 1..Len(futures)
            /\ c.client = c.task
            /\ clients[c.client] = futures[c.task].region
  /\ \A c, d \in api_calls : c.client = d.client => c.task = d.task

\* After the caller's instance listed the topology, the task of the home
\* region and the task of another region have each listed their groups, asked
\* for a member's detail and listed the parameters of a parameter group, each
\* through its own instance
C35_Witness ==
  /\ ApiCall(0, "describe_global_replication_groups", 0) \in api_calls
  /\ \E a, b \in 1..Len(futures) :
       /\ a # b
       /\ { a, b } \subseteq DOMAIN clients
       /\ futures[a].region = self_region
       /\ clients[a] = self_region
       /\ clients[b] # self_region
       /\ \A t \in { a, b } :
            \A op \in { "describe_replication_groups", "describe_cache_clusters",
                         "describe_cache_parameters" } :
              ApiCall(t, op, t) \in api_calls

(***************************************************************************)
(* The topology map after its construction (checked under Spec)            *)
(***************************************************************************)

\* C36: once the resolver has returned it, the map is never modified: no step
\* of a regional task, whether its region or its groups are in the map or
\* not, and no later step of the run adds, removes or changes an entry, so
\* the map every task was handed is the map as it still is.
C36_MapReadOnly ==
  [][ /\ pc # "ResolvingTopology" => global_ds_map' = global_ds_map
      /\ \A f \in 1..Len(futures') : futures'[f].global_ds_map = global_ds_map'
    ]_vars

\* A finished run in which a task converted a group of a region that the map
\* does not hold, beside a task of a region that it holds
C36_Witness ==
  /\ pc = "Done"
  /\ global_ds_map # EmptyMap
  /\ \E f, g \in 1..Len(futures) :
       /\ futures[f].region \notin DOMAIN global_ds_map
       /\ futures[f].state = "finished"
       /\ \E rec \in Range(futures[f].results) : rec.role = ""
       /\ futures[g].region \in DOMAIN global_ds_map
       /\ futures[g].state = "finished"
       /\ \E rec \in Range(futures[g].results) : rec.role # ""

(***************************************************************************)
(* A failed region against an empty region (checked under Spec)            *)
(***************************************************************************)

\* What the task of future f yields when its region holds no replication
\* group and no cache cluster and nothing fails
OutcomeWithEmptyRegion(f) ==
  query_region_wrapper(futures[f].region, futures[f].engines, futures[f].cluster_filter,
                       futures[f].global_ds_map, RegionInventory(<< >>, << >>), NoFault)

\* The task outcomes of the run that differs from this one only in that the
\* region of future r is empty and its task succeeds
CounterpartOutcomes(r) ==
  [f \in 1..Len(futures) |->
     IF f = r THEN OutcomeWithEmptyRegion(f)
     ELSE [exc |-> futures[f].exc, results |-> futures[f].results]]

\* all_results after the futures order[i], order[i+1], ... were collected
RECURSIVE Collected(_, _, _)
Collected(outcomes, order, i) ==
  IF i > Len(order) THEN << >>
  ELSE (IF outcomes[order[i]].exc = None THEN outcomes[order[i]].results ELSE << >>)
       \o Collected(outcomes, order, i + 1)

\* The list get_elasticache_info returns for these outcomes, collected in
\* this order
RunResult(outcomes, order) == sort_by_region(Collected(outcomes, order, 1))

\* C37: a run in which region R failed returns the very list returned by the
\* run that differs only in R legitimately having nothing to list: the same
\* records in the same order, and no record or marker for R.
C37_FailureLooksLikeEmptyRegion ==
  pc = "Done" =>
    \A r \in 1..Len(futures) :
      futures[r].state = "raised" =>
        /\ OutcomeWithEmptyRegion(r).exc = None
        /\ returned = RunResult(CounterpartOutcomes(r), completed)
        /\ \A i \in 1..Len(returned) : returned[i].region # futures[r].region

\* A finished run in which the task of a region that holds clusters raised
\* and another region contributed records
C37_Witness ==
  /\ pc = "Done"
  /\ returned # << >>
  /\ \E r \in 1..Len(futures) :
       /\ futures[r].state = "raised"
       /\ FullEnumeration(r) # << >>

(***************************************************************************)
(* Entries of the shared cache are permanent (checked under CacheSpec)     *)
(***************************************************************************)

\* C38: once the shared cache holds an entry for a name, no later step
\* replaces or removes it: a thread that reaches the insertion after another
\* thread inserted the same name leaves the cache as it is (the first writer
\* wins), and a thread starting its next call, after an earlier call of its
\* own returned, finds every entry still in place.
C38_FirstWriterWins ==
  [][ /\ \A n \in DOMAIN shared_param_cache :
           n \in DOMAIN shared_param_cache' /\ shared_param_cache'[n] = shared_param_cache[n]
      /\ \A t \in Threads :
           /\ (tpc[t] = "insert" /\ tpc'[t] = "returned"
                 /\ call_name[t] \in DOMAIN shared_param_cache)
                => shared_param_cache' = shared_param_cache
           /\ (tpc[t] = "returned" /\ tpc'[t] = "lock_check")
                => shared_param_cache' = shared_param_cache
    ]_vars

\* A thread completed its query with values other than those another thread
\* had inserted for the same name, the entry is still the first writer's, and
\* a later call of the first writer was served from it
C38_Witness ==
  \E t, u \in Threads :
    /\ t # u
    /\ tpc[t] = "returned" /\ queried[t] /\ fail_at[t] = 0
    /\ call_name[t] \in DOMAIN shared_param_cache
    /\ shared_param_cache[call_name[t]] # params[t]
    /\ tpc[u] = "returned" /\ ~queried[u] /\ call_name[u] = call_name[t]
    /\ ret[u] = shared_param_cache[call_name[t]]
    /\ calls_made = MaxCalls

(***************************************************************************)
(* A listing retried after rate limiting (checked under EnumSpec)          *)
(***************************************************************************)

\* C39: when a listing of replication groups or of cache clusters is rate
\* limited after pages were served and a later attempt succeeds, the list
\* returned holds each listed item that passes the filter exactly once, in
\* the order listed: what the abandoned attempts had collected is neither
\* repeated in it nor carried over into it.
C39_RetryStartsAfresh ==
  (en_pc = "returned" /\ en_attempt > 0) =>
    /\ en_out = kept_of_page(en_kind, Flatten(en_pages, 1), en_filter)
    /\ \A i, j \in 1..Len(en_out) : i # j => en_out[i] # en_out[j]
    /\ \A item \in Range(Flatten(en_pages, 1)) :
         Cardinality({ i \in 1..Len(en_out) : en_out[i] = item }) <= 1

\* A listing returned on its third attempt, two attempts having been
\* abandoned with items already collected
C39_Witness ==
  /\ en_pc = "returned"
  /\ en_attempt = max_retries - 1
  /\ Len(en_out) >= 2
  /\ \A k \in 1..Len(en_discarded) : en_discarded[k] # << >>
  /\ Len(en_discarded) = en_attempt

(***************************************************************************)
(* Role and name of the records returned (checked under Spec)              *)
(***************************************************************************)

\* The non-empty construct ids of the provider's global listing
ConstructIds ==
  UNION { { g.GlobalReplicationGroupId : g \in Range(gds_pages[p]) }
          : p \in 1..Len(gds_pages) } \ { "" }

\* The local ids the provider lists in a region
LocalIds(region) ==
  { rg.ReplicationGroupId : rg \in Range(inventory[region].ReplicationGroups) }
    \cup { c.CacheClusterId : c \in Range(inventory[region].CacheClusters) }

\* The name is a non-empty construct id, "/", and a local id of the region
IsComposed(rec) ==
  \E c \in ConstructIds : \E id \in LocalIds(rec.region) : rec.name = c \o "/" \o id

\* C40: in every record of the list returned, the role is non-empty, and then
\* "Primary" or "Secondary", if and only if the name is composed of a
\* non-empty construct id, "/" and the local id; a record with an empty role
\* carries the bare local id. This is to hold for every topology the resolver
\* builds, members of a construct without an id included.
C40_RoleIffComposedName ==
  pc = "Done" =>
    \A i \in 1..Len(returned) :
      LET rec == returned[i]
      IN /\ rec.role # "" <=> IsComposed(rec)
         /\ rec.role # "" => rec.role \in { "Primary", "Secondary" }
         /\ rec.role = "" => rec.name \in LocalIds(rec.region)

====
